---- MODULE Spec2Model ----
(***************************************************************************)
(* exFetch (hugoalh-studio/exfetch-nodejs): the request orchestrator       *)
(* ExFetch.fetch (retry on status, bounded manual redirect) and the        *)
(* paginator ExFetch.fetchPaginate, with the Link header parser the        *)
(* paginator reads.  Line numbers refer to the 0.2.0 build kept in         *)
(* src/dist/header/retry-after.d.ts (lines 28-436) and to                  *)
(* src/dist/header/link.js.                                                *)
(*                                                                         *)
(* An absent value (undefined, null, a missing header) is the empty tuple  *)
(* <<>>, a present one the one-element tuple <<v>>.  Text is a TLA+ string *)
(* and cursors are 0-based as in the source.                               *)
(***************************************************************************)
EXTENDS Integers, Sequences, FiniteSets, TLC

(***************************************************************************)
(* Bounds of the model.                                                    *)
(***************************************************************************)
\* largest retry.maximum given to the constructor
MaxRetryMaximum == 2
\* largest finite redirect.maximum given to the constructor
MaxRedirectMaximum == 1
\* largest finite paginate.maximum given to the constructor or as override
MaxPaginateMaximum == 2

(***************************************************************************)
(* Program constants.                                                      *)
(***************************************************************************)
\* JavaScript's Infinity, above every number the model counts to
Infinity == 2147483647

httpStatusCodesRedirectable == {301, 302, 303, 307, 308}

httpStatusCodesRetryable == {408, 429, 500, 502, 503, 504, 506, 507, 508}

(***************************************************************************)
(* Text helpers (String.prototype.charAt / slice / indexOf / startsWith).  *)
(***************************************************************************)
charAt(s, i) ==
    IF i >= 0 /\ i < Len(s) THEN SubSeq(s, i + 1, i + 1) ELSE ""

\* s.slice(a, b) for 0 <= a, 0 <= b
slice(s, a, b) ==
    LET e == IF b > Len(s) THEN Len(s) ELSE b
    IN  IF a >= e THEN "" ELSE SubSeq(s, a + 1, e)

sliceFrom(s, a) == slice(s, a, Len(s))

RECURSIVE indexOf(_, _, _)
\* s.indexOf(ch, from) for a one-character ch; -1 when there is none
indexOf(s, ch, from) ==
    IF from >= Len(s) THEN -1
    ELSE IF charAt(s, from) = ch THEN from
    ELSE indexOf(s, ch, from + 1)

RECURSIVE lastIndexOf(_, _, _)
\* the last index <= from holding ch; -1 when there is none
lastIndexOf(s, ch, from) ==
    IF from < 0 THEN -1
    ELSE IF charAt(s, from) = ch THEN from
    ELSE lastIndexOf(s, ch, from - 1)

startsWith(s, p) == slice(s, 0, Len(p)) = p

(***************************************************************************)
(* WHATWG URL, as far as the program uses it: new URL(ref, base) over the  *)
(* absolute forms "https://host/path" and "file:///path" and the relative  *)
(* forms "//host/path", "/path" and "name".  An https URL needs a host.    *)
(* The result is <<href>>, or <<>> when the constructor throws TypeError.  *)
(***************************************************************************)
URLProtocol(href) ==
    slice(href, 0, indexOf(href, ":", 0) + 1)

\* the index of the "/" that starts the path of an absolute href
URLPathStart(href) ==
    indexOf(href, "/", Len(URLProtocol(href)) + 2)

URLOrigin(href) == slice(href, 0, URLPathStart(href))

\* an absolute href: well formed when, for https, the host is not empty
URLAbsolute(href) ==
    LET hostStart == Len(URLProtocol(href)) + 2
        pathStart == indexOf(href, "/", hostStart)
    IN  IF URLProtocol(href) = "https:"
           /\ (hostStart >= Len(href) \/ pathStart = hostStart)
        THEN <<>>
        ELSE IF pathStart = -1 THEN <<href \o "/">> ELSE <<href>>

URLResolve(ref, base) ==
    IF startsWith(ref, "https://") \/ startsWith(ref, "file://")
    THEN URLAbsolute(ref)
    ELSE IF startsWith(ref, "//")
    THEN URLAbsolute(URLProtocol(base) \o ref)
    ELSE IF startsWith(ref, "/")
    THEN <<URLOrigin(base) \o ref>>
    ELSE IF ref = ""
    THEN <<base>>
    ELSE <<slice(base, 0, lastIndexOf(base, "/", Len(base) - 1) + 1) \o ref>>

(***************************************************************************)
(* HTTPHeaderLink, src/dist/header/link.js.  A collection is a sequence of *)
(* entries [uri, parameters]; parameters is the sequence of <<name, value>>*)
(* pairs of the entry's object, in the order the names were first set.     *)
(* The text the model parses is ASCII, so the removal of U+FEFF and U+00A0 *)
(* (line 51) leaves it as it is.                                           *)
(***************************************************************************)
UpperCaseLetters == "ABCDEFGHIJKLMNOPQRSTUVWXYZ"

LowerCaseLetters == "abcdefghijklmnopqrstuvwxyz"

Digits == "0123456789"

\* the characters of the class \s that the model's text can hold
WhitespaceCharacters == " \t\n\r\f"

isIn(ch, chars) == ch # "" /\ indexOf(chars, ch, 0) # -1

\* \w
isWord(ch) ==
    isIn(ch, UpperCaseLetters) \/ isIn(ch, LowerCaseLetters) \/ isIn(ch, Digits)
    \/ ch = "_"

isWhitespace(ch) == isIn(ch, WhitespaceCharacters)

toLowerCaseCharacter(ch) ==
    IF isIn(ch, UpperCaseLetters)
    THEN charAt(LowerCaseLetters, indexOf(UpperCaseLetters, ch, 0))
    ELSE ch

RECURSIVE toLowerCase(_)
toLowerCase(s) ==
    IF s = "" THEN ""
    ELSE toLowerCaseCharacter(charAt(s, 0)) \o toLowerCase(sliceFrom(s, 1))

\* isStringCaseLower of @hugoalh/advanced-determine
isStringCaseLower(s) == s = toLowerCase(s)

RECURSIVE hasWhitespace(_)
\* /\r?\n|\s|\t/u.test(s)
hasWhitespace(s) ==
    IF s = "" THEN FALSE
    ELSE isWhitespace(charAt(s, 0)) \/ hasWhitespace(sliceFrom(s, 1))

\* a checkURI that never throws
checkURIAnything(uri) == TRUE

\* checkURI (lines 12-16) does not throw
checkURI(uri) == ~hasWhitespace(uri)

RECURSIVE cursorWhitespaceSkipper(_, _)
\* lines 24-27: the number of whitespace characters at the cursor
cursorWhitespaceSkipper(value, cursor) ==
    IF isWhitespace(charAt(value, cursor))
    THEN 1 + cursorWhitespaceSkipper(value, cursor + 1)
    ELSE 0

(***************************************************************************)
(* decodeURI / encodeURI over the escapes the model's text can hold:       *)
(* %20 is a space, %25 a percent sign, %41 the letter A, %22 a double      *)
(* quote, %3C and %3E the angle brackets, %5C a backslash; %2C and %2F     *)
(* name reserved characters, which decodeURI leaves escaped; any other use *)
(* of "%" is malformed and makes decodeURI throw URIError.                 *)
(* decodeURI gives <<text>>, or <<>> when it throws.                       *)
(***************************************************************************)
RECURSIVE decodeURI(_)
decodeURI(s) ==
    IF s = "" THEN <<"">>
    ELSE IF charAt(s, 0) # "%"
    THEN LET rest == decodeURI(sliceFrom(s, 1))
         IN  IF rest = <<>> THEN <<>> ELSE <<charAt(s, 0) \o rest[1]>>
    ELSE LET escape == slice(s, 0, 3)
             rest == decodeURI(sliceFrom(s, 3))
             decoded == IF escape = "%20" THEN <<" ">>
                        ELSE IF escape = "%25" THEN <<"%">>
                        ELSE IF escape = "%41" THEN <<"A">>
                        ELSE IF escape = "%22" THEN <<"\"">>
                        ELSE IF escape = "%3C" THEN <<"<">>
                        ELSE IF escape = "%3E" THEN <<">">>
                        ELSE IF escape = "%5C" THEN <<"\\">>
                        ELSE IF escape \in {"%2C", "%2F"} THEN <<escape>>
                        ELSE <<>>
         IN  IF decoded = <<>> \/ rest = <<>> THEN <<>>
             ELSE <<decoded[1] \o rest[1]>>

RECURSIVE encodeURI(_)
encodeURI(s) ==
    IF s = "" THEN ""
    ELSE (IF charAt(s, 0) = " " THEN "%20"
          ELSE IF charAt(s, 0) = "%" THEN "%25"
          ELSE IF charAt(s, 0) = "\"" THEN "%22"
          ELSE IF charAt(s, 0) = "<" THEN "%3C"
          ELSE IF charAt(s, 0) = ">" THEN "%3E"
          ELSE IF charAt(s, 0) = "\\" THEN "%5C"
          ELSE charAt(s, 0))
         \o encodeURI(sliceFrom(s, 1))

LinkEntry(uri, parameters) == [uri |-> uri, parameters |-> parameters]

\* the result of a parse that throws
LinkError == [ok |-> FALSE, entries |-> <<>>]

\* a call on a collection that throws the error named: entries is what the
\* collection holds by then
LinkThrown(name, entries) == [ok |-> FALSE, error |-> name, entries |-> entries]

\* a call on a collection that returns
LinkDone(entries) == [ok |-> TRUE, error |-> "none", entries |-> entries]

RECURSIVE hasParameterName(_, _)
hasParameterName(parameters, name) ==
    IF parameters = <<>> THEN FALSE
    ELSE Head(parameters)[1] = name \/ hasParameterName(Tail(parameters), name)

\* parameters[name] = value
setParameter(parameters, name, value) ==
    IF hasParameterName(parameters, name)
    THEN [i \in 1 .. Len(parameters) |->
             IF parameters[i][1] = name THEN <<name, value>> ELSE parameters[i]]
    ELSE Append(parameters, <<name, value>>)

RECURSIVE getParameter(_, _)
\* parameters[name]: <<>> when undefined
getParameter(parameters, name) ==
    IF parameters = <<>> THEN <<>>
    ELSE IF Head(parameters)[1] = name THEN <<Head(parameters)[2]>>
    ELSE getParameter(Tail(parameters), name)

RECURSIVE matchWordRun(_, _)
\* the length of the run of [\w-] characters at the cursor
matchWordRun(value, cursor) ==
    IF isWord(charAt(value, cursor)) \/ charAt(value, cursor) = "-"
    THEN 1 + matchWordRun(value, cursor + 1)
    ELSE 0

\* line 82: value.slice(cursor).match(/^[\w-]+\*?/u)?.[0]; "" when no match
matchParameterName(value, cursor) ==
    LET n == matchWordRun(value, cursor)
    IN  IF n = 0 THEN ""
        ELSE IF charAt(value, cursor + n) = "*"
        THEN slice(value, cursor, cursor + n + 1)
        ELSE slice(value, cursor, cursor + n)

RECURSIVE parseQuotedToComma(_, _, _)
\* a loop over a quoted value that a comma ends as well
parseQuotedToComma(value, cursor, parameterValue) ==
    IF ~(cursor < Len(value))
    THEN [value |-> parameterValue, cursor |-> cursor]
    ELSE IF charAt(value, cursor) = "\""
    THEN [value |-> parameterValue, cursor |-> cursor + 1]
    ELSE IF charAt(value, cursor) = ","
    THEN [value |-> parameterValue, cursor |-> cursor]
    ELSE LET at == IF charAt(value, cursor) = "\\" THEN cursor + 1 ELSE cursor
         IN  parseQuotedToComma(value, at + 1, parameterValue \o charAt(value, at))

RECURSIVE parseQuoted(_, _, _)
\* lines 106-116: the loop over a quoted value, entered after the quote
parseQuoted(value, cursor, parameterValue) ==
    IF ~(cursor < Len(value))
    THEN [value |-> parameterValue, cursor |-> cursor]
    ELSE IF charAt(value, cursor) = "\""
    THEN [value |-> parameterValue, cursor |-> cursor + 1]
    ELSE LET at == IF charAt(value, cursor) = "\\" THEN cursor + 1 ELSE cursor
         IN  parseQuoted(value, at + 1, parameterValue \o charAt(value, at))

RECURSIVE searchDelimiter(_, _)
\* value.slice(cursor).search(/[\s;,]/u), counted from the cursor
searchDelimiter(value, cursor) ==
    IF ~(cursor < Len(value)) THEN -1
    ELSE IF isWhitespace(charAt(value, cursor)) \/ charAt(value, cursor) \in {";", ","}
    THEN 0
    ELSE LET rest == searchDelimiter(value, cursor + 1)
         IN  IF rest = -1 THEN -1 ELSE rest + 1

\* lines 119-127: an unquoted value
parseUnquoted(value, cursor) ==
    LET cursorDiffParameterValue == searchDelimiter(value, cursor)
    IN  IF cursorDiffParameterValue = -1
        THEN [value |-> sliceFrom(value, cursor), cursor |-> Len(value)]
        ELSE [value |-> slice(value, cursor, cursorDiffParameterValue),
              cursor |-> cursor + cursorDiffParameterValue]

httpHeaderLinkParametersNeedLowerCase == {"rel", "type"}

\* cursor += cursorWhitespaceSkipper(valueResolve, cursor)
skipWhitespace(value, cursor) == cursor + cursorWhitespaceSkipper(value, cursor)

\* the result of a parameter loop that throws
ParametersError == [ok |-> FALSE, cursor |-> 0, parameters |-> <<>>]

RECURSIVE parseParameters(_, _, _)
RECURSIVE parseParameterName(_, _, _, _)
RECURSIVE parseParameterSeparator(_, _, _, _)
RECURSIVE parseParameterValue(_, _, _, _)
RECURSIVE parseParameterStore(_, _, _, _)
RECURSIVE parseParameterEnd(_, _, _)

\* lines 80-81: the loop over the parameters of one entry, at its test;
\* [ok, cursor, parameters]
parseParameters(value, cursor, parameters) ==
    IF ~(cursor < Len(value))
    THEN [ok |-> TRUE, cursor |-> cursor, parameters |-> parameters]
    ELSE parseParameterName(value, skipWhitespace(value, cursor), parameters,
                            matchParameterName(value,
                                               skipWhitespace(value, cursor)))

\* lines 82-87: matched is the match of the name pattern, "" when none
parseParameterName(value, cursor, parameters, matched) ==
    IF matched = "" THEN ParametersError
    ELSE parseParameterSeparator(
             value, skipWhitespace(value, cursor + Len(toLowerCase(matched))),
             parameters, toLowerCase(matched))

\* lines 88-102: what follows the name
parseParameterSeparator(value, cursor, parameters, parameterName) ==
    IF cursor = Len(value) \/ charAt(value, cursor) = ","
    THEN [ok |-> TRUE, cursor |-> cursor,
          parameters |-> setParameter(parameters, parameterName, "")]
    ELSE IF charAt(value, cursor) = ";"
    THEN parseParameters(value, cursor + 1,
                         setParameter(parameters, parameterName, ""))
    ELSE IF charAt(value, cursor) # "="
    THEN ParametersError
    ELSE parseParameterValue(value, skipWhitespace(value, cursor + 1), parameters,
                             parameterName)

\* lines 103-128: the value, quoted or not
parseParameterValue(value, cursor, parameters, parameterName) ==
    parseParameterStore(value, parameters, parameterName,
                        IF charAt(value, cursor) = "\""
                        THEN parseQuoted(value, cursor + 1, "")
                        ELSE parseUnquoted(value, cursor))

\* lines 129-130
parseParameterStore(value, parameters, parameterName, parsed) ==
    parseParameterEnd(
        value, skipWhitespace(value, parsed.cursor),
        setParameter(parameters, parameterName,
                     IF parameterName \in httpHeaderLinkParametersNeedLowerCase
                     THEN toLowerCase(parsed.value)
                     ELSE parsed.value))

\* lines 131-139: what follows the value
parseParameterEnd(value, cursor, parameters) ==
    IF cursor = Len(value) \/ charAt(value, cursor) = ","
    THEN [ok |-> TRUE, cursor |-> cursor, parameters |-> parameters]
    ELSE IF charAt(value, cursor) = ";"
    THEN parseParameters(value, cursor + 1, parameters)
    ELSE ParametersError

RECURSIVE parseEntries(_, _, _)
RECURSIVE parseEntryURI(_, _, _, _)
RECURSIVE parseEntryDecoded(_, _, _, _)
RECURSIVE parseEntryParameters(_, _, _, _)

\* lines 52-56: the loop over the entries, at its test; [ok, entries]
parseEntries(value, cursor, entries) ==
    IF ~(cursor < Len(value))
    THEN LinkDone(entries)
    ELSE IF charAt(value, skipWhitespace(value, cursor)) # "<"
    THEN LinkThrown("SyntaxError", entries)
    ELSE parseEntryURI(value, skipWhitespace(value, cursor) + 1, entries,
                       indexOf(value, ">", skipWhitespace(value, cursor) + 1))

\* lines 58-70: cursor is at the first character of the URI
parseEntryURI(value, cursor, entries, cursorEndURI) ==
    IF cursorEndURI = -1 THEN LinkThrown("SyntaxError", entries)
    ELSE IF cursorEndURI = cursor THEN LinkThrown("SyntaxError", entries)
    ELSE IF ~checkURI(slice(value, cursor, cursorEndURI)) THEN LinkThrown("SyntaxError", entries)
    ELSE parseEntryDecoded(value, skipWhitespace(value, cursorEndURI + 1), entries,
                           decodeURI(slice(value, cursor, cursorEndURI)))

\* lines 67, 71-79: uri is what decodeURI gave
parseEntryDecoded(value, cursor, entries, uri) ==
    IF uri = <<>> THEN LinkThrown("URIError", entries)
    ELSE IF cursor = Len(value) \/ charAt(value, cursor) = ","
    THEN parseEntries(value, cursor + 1, Append(entries, LinkEntry(uri[1], <<>>)))
    ELSE IF charAt(value, cursor) # ";" THEN LinkThrown("SyntaxError", entries)
    ELSE parseEntryParameters(value, entries, uri,
                              parseParameters(value, cursor + 1, <<>>))

\* lines 141, 52: p is what the loop over the parameters gave
parseEntryParameters(value, entries, uri, p) ==
    IF ~p.ok THEN LinkThrown("SyntaxError", entries)
    ELSE parseEntries(value, p.cursor + 1,
                      Append(entries, LinkEntry(uri[1], p.parameters)))

\* #parse (lines 47-143) on a collection that holds entries
HTTPHeaderLinkParseText(value, entries) ==
    IF Len(value) = 0 THEN LinkDone(entries)
    ELSE parseEntries(value, 0, entries)

\* HTTPHeaderLink.parse(response): lines 245-247, 36-40, 172-174
HTTPHeaderLinkParse(r) ==
    IF HTTPHeaderLinkParseText(IF r.link = <<>> THEN "" ELSE r.link[1], <<>>).ok
    THEN [ok |-> TRUE,
          entries |-> HTTPHeaderLinkParseText(IF r.link = <<>> THEN "" ELSE r.link[1],
                                              <<>>).entries]
    ELSE LinkError

RECURSIVE filterByRel(_, _)
filterByRel(entries, value) ==
    IF entries = <<>> THEN <<>>
    ELSE LET rel == getParameter(Head(entries).parameters, "rel")
             rest == filterByRel(Tail(entries), value)
         IN  IF rel # <<>> /\ toLowerCase(rel[1]) = value
             THEN <<Head(entries)>> \o rest
             ELSE rest

\* a getByRel that takes a value of any case
getByRelAnyCase(entries, value) == [ok |-> TRUE, entries |-> filterByRel(entries, value)]

\* getByRel (lines 209-216): [ok, entries]; not ok when it throws SyntaxError
getByRel(entries, value) ==
    IF ~isStringCaseLower(value)
    THEN [ok |-> FALSE, entries |-> <<>>]
    ELSE [ok |-> TRUE, entries |-> filterByRel(entries, value)]

RECURSIVE filterByParameter(_, _, _)
\* entries.filter((entry) => entry[1][key] === value)
filterByParameter(entries, key, value) ==
    IF entries = <<>> THEN <<>>
    ELSE IF getParameter(Head(entries).parameters, key) = <<value>>
    THEN <<Head(entries)>> \o filterByParameter(Tail(entries), key, value)
    ELSE filterByParameter(Tail(entries), key, value)

\* getByParameter (link.d.ts lines 264-274): [ok, entries]; not ok when it
\* throws SyntaxError
getByParameter(entries, key, value) ==
    IF ~isStringCaseLower(key) THEN [ok |-> FALSE, entries |-> <<>>]
    ELSE IF key = "rel" THEN getByRel(entries, value)
    ELSE [ok |-> TRUE, entries |-> filterByParameter(entries, key, value)]

\* hasParameter (lines 294-296): [ok, has]; not ok when getByParameter throws
hasParameter(entries, key, value) ==
    [ok |-> getByParameter(entries, key, value).ok,
     has |-> Len(getByParameter(entries, key, value).entries) > 0]

\* /^[\w-]+\*?$/u.test(key)
isParameterKey(key) == key # "" /\ matchParameterName(key, 0) = key

\* a test of the parameters of an entry that nothing fails
parametersValidAnything(parameters) == TRUE

RECURSIVE parametersValid(_)
\* lines 231-239: no parameter of an entry of an array makes add throw
parametersValid(parameters) ==
    IF parameters = <<>> THEN TRUE
    ELSE /\ isStringCaseLower(Head(parameters)[1])
         /\ isParameterKey(Head(parameters)[1])
         /\ Head(parameters)[1] \in httpHeaderLinkParametersNeedLowerCase
               => isStringCaseLower(Head(parameters)[2])
         /\ parametersValid(Tail(parameters))

RECURSIVE addEntries(_, _)
\* lines 227-242: add(value) for an array of entries; what was pushed before
\* an entry that throws stays in the collection
addEntries(entries, value) ==
    IF value = <<>> THEN LinkDone(entries)
    ELSE IF ~checkURI(Head(value).uri) THEN LinkThrown("SyntaxError", entries)
    ELSE IF ~parametersValid(Head(value).parameters)
    THEN LinkThrown("SyntaxError", entries)
    ELSE addEntries(Append(entries, Head(value)), Tail(value))

\* the values add is called with: a string, the Link header of a Headers or
\* of a Response (<<>> when there is none), an array of entries, and the
\* entries of another HTTPHeaderLink
LinkString(text) == [kind |-> "string", text |-> text]

LinkHeaders(link) == [kind |-> "headers", link |-> link]

LinkResponse(link) == [kind |-> "response", link |-> link]

LinkArray(entries) == [kind |-> "array", entries |-> entries]

LinkCollection(entries) == [kind |-> "link", entries |-> entries]

\* an add that puts what the value gives in front of the collection
HTTPHeaderLinkAddFront(entries, value) ==
    IF value.kind = "link" THEN LinkDone(value.entries \o entries)
    ELSE IF value.kind = "array"
    THEN [addEntries(<<>>, value.entries) EXCEPT !.entries = @ \o entries]
    ELSE [HTTPHeaderLinkParseText(
              IF value.kind = "string" THEN value.text
              ELSE IF value.link = <<>> THEN "" ELSE value.link[1], <<>>)
          EXCEPT !.entries = @ \o entries]

\* add (lines 220-250) on a collection that holds entries
HTTPHeaderLinkAdd(entries, value) ==
    IF value.kind = "headers"
    THEN HTTPHeaderLinkParseText(IF value.link = <<>> THEN "" ELSE value.link[1], entries)
    ELSE IF value.kind = "link" THEN LinkDone(entries \o value.entries)
    ELSE IF value.kind = "array" THEN addEntries(entries, value.entries)
    ELSE IF value.kind = "response"
    THEN HTTPHeaderLinkParseText(IF value.link = <<>> THEN "" ELSE value.link[1], entries)
    ELSE HTTPHeaderLinkParseText(value.text, entries)

RECURSIVE escapeQuotes(_)
\* value.replace(/"/g, "\\\"")
escapeQuotes(value) ==
    IF value = "" THEN ""
    ELSE (IF charAt(value, 0) = "\"" THEN "\\\"" ELSE charAt(value, 0))
         \o escapeQuotes(sliceFrom(value, 1))

RECURSIVE parametersToString(_)
\* lines 305-307
parametersToString(parameters) ==
    IF parameters = <<>> THEN ""
    ELSE (IF Len(Head(parameters)[2]) > 0
          THEN "; " \o Head(parameters)[1] \o "=\"" \o escapeQuotes(Head(parameters)[2])
               \o "\""
          ELSE "; " \o Head(parameters)[1])
         \o parametersToString(Tail(parameters))

RECURSIVE toString(_)
\* toString (lines 301-310)
toString(entries) ==
    IF entries = <<>> THEN ""
    ELSE "<" \o encodeURI(Head(entries).uri) \o ">"
         \o parametersToString(Head(entries).parameters)
         \o (IF Tail(entries) = <<>> THEN "" ELSE ", " \o toString(Tail(entries)))

\* HTTPHeaderLink.stringify(value) (lines 324-326): new this(value).toString();
\* [ok, error, text]
stringify(value) ==
    IF HTTPHeaderLinkAdd(<<>>, value).ok
    THEN [ok |-> TRUE, error |-> "none",
          text |-> toString(HTTPHeaderLinkAdd(<<>>, value).entries)]
    ELSE [ok |-> FALSE, error |-> HTTPHeaderLinkAdd(<<>>, value).error, text |-> ""]


(***************************************************************************)
(* Responses of the transport: status, and the headers the program reads.  *)
(***************************************************************************)
Response(status, location, retryAfter, link) ==
    [status |-> status, location |-> location, retryAfter |-> retryAfter,
     link |-> link]

\* the value of a variable that holds no response yet
NoResponse == Response(0, <<>>, <<>>, <<>>)

\* Response.ok
ResponseOk(r) == r.status >= 200 /\ r.status <= 299

(***************************************************************************)
(* HTTPHeaderRetryAfter(response).getRemainTimeMilliseconds(), evaluated   *)
(* at the instant of construction: <<milliseconds>>, or <<>> when the      *)
(* constructor throws (no header, or a value that is neither a count of    *)
(* seconds nor a date).  Only the declaration of the class is in src/.     *)
(***************************************************************************)
RetryAfterRemainTimeMilliseconds(r) ==
    IF r.retryAfter = <<>> THEN <<>>
    ELSE IF r.retryAfter[1] = "0" THEN <<0>>
    ELSE IF r.retryAfter[1] = "1" THEN <<1000>>
    ELSE IF r.retryAfter[1] = "2" THEN <<2000>>
    ELSE <<>>

(***************************************************************************)
(* Option resolution.  A result is [ok |-> TRUE, value |-> v], or          *)
(* [ok |-> FALSE] when the code throws RangeError.                         *)
(***************************************************************************)
NumberIsSafeInteger(n) == n \in Int /\ n > -Infinity /\ n < Infinity

DelayOptions(minimum, maximum) == [minimum |-> minimum, maximum |-> maximum]

\* lines 67-96 without the comparison of the merged bounds (lines 92-94)
resolveDelayOptionsNotCompared(input, original) ==
    IF input.kind = "number"
    THEN IF ~(NumberIsSafeInteger(input.value) /\ input.value >= 0)
         THEN [ok |-> FALSE, value |-> original]
         ELSE [ok |-> TRUE, value |-> DelayOptions(input.value, input.value)]
    ELSE IF input.maximum # <<>>
            /\ ~(NumberIsSafeInteger(input.maximum[1]) /\ input.maximum[1] >= 0)
    THEN [ok |-> FALSE, value |-> original]
    ELSE IF input.minimum # <<>>
            /\ ~(NumberIsSafeInteger(input.minimum[1]) /\ input.minimum[1] >= 0)
    THEN [ok |-> FALSE, value |-> original]
    ELSE [ok |-> TRUE,
          value |-> DelayOptions(
                        IF input.minimum # <<>> THEN input.minimum[1]
                        ELSE original.minimum,
                        IF input.maximum # <<>> THEN input.maximum[1]
                        ELSE original.maximum)]

\* input: [kind |-> "number", value |-> n], or
\*        [kind |-> "object", maximum |-> <<>> or <<n>>, minimum |-> <<>> or <<n>>]
resolveDelayOptions(input, original) ==
    IF input.kind = "number"
    THEN IF ~(NumberIsSafeInteger(input.value) /\ input.value >= 0)
         THEN [ok |-> FALSE, value |-> original]
         ELSE [ok |-> TRUE, value |-> DelayOptions(input.value, input.value)]
    ELSE IF input.maximum # <<>>
            /\ ~(NumberIsSafeInteger(input.maximum[1]) /\ input.maximum[1] >= 0)
    THEN [ok |-> FALSE, value |-> original]
    ELSE IF input.minimum # <<>>
            /\ ~(NumberIsSafeInteger(input.minimum[1]) /\ input.minimum[1] >= 0)
    THEN [ok |-> FALSE, value |-> original]
    ELSE LET optionsResolve ==
                 DelayOptions(
                     IF input.minimum # <<>> THEN input.minimum[1] ELSE original.minimum,
                     IF input.maximum # <<>> THEN input.maximum[1] ELSE original.maximum)
         IN  IF optionsResolve.minimum > optionsResolve.maximum
             THEN [ok |-> FALSE, value |-> original]
             ELSE [ok |-> TRUE, value |-> optionsResolve]

\* a randomInt whose maximum is inclusive
randomIntInclusive(minimum, maximum) == minimum .. maximum

\* the values randomInt(minimum, maximum) can return: minimum <= n < maximum
randomInt(minimum, maximum) == minimum .. (maximum - 1)

\* the set of delay times resolveDelayTime can return
resolveDelayTime(delay) ==
    IF delay.maximum = delay.minimum
    THEN {delay.maximum}
    ELSE randomInt(delay.minimum, delay.maximum)

(***************************************************************************)
(* The interval resolvers of ExFetch v0.1.0, src/unnamed/part_000.         *)
(***************************************************************************)
IntervalStatus(increment, minimum, maximum) ==
    [increment |-> increment, minimum |-> minimum, maximum |-> maximum]

\* input: [increment, minimum, maximum], each <<>> or <<v>>;
\* [ok |-> TRUE, value |-> v], or [ok |-> FALSE] when it throws RangeError
resolveIntervalOptions(input, original) ==
    IF input.maximum # <<>>
       /\ ~(NumberIsSafeInteger(input.maximum[1]) /\ input.maximum[1] >= 0)
    THEN [ok |-> FALSE, value |-> original]
    ELSE IF input.minimum # <<>>
            /\ ~(NumberIsSafeInteger(input.minimum[1]) /\ input.minimum[1] >= 0)
    THEN [ok |-> FALSE, value |-> original]
    ELSE LET optionsResolve ==
                 IntervalStatus(
                     IF input.increment # <<>> THEN input.increment[1]
                     ELSE original.increment,
                     IF input.minimum # <<>> THEN input.minimum[1] ELSE original.minimum,
                     IF input.maximum # <<>> THEN input.maximum[1] ELSE original.maximum)
         IN  IF optionsResolve.maximum < optionsResolve.minimum
             THEN [ok |-> FALSE, value |-> original]
             ELSE [ok |-> TRUE, value |-> optionsResolve]

\* what a call of a delay resolver does: it returns one of values, or throws
TimeReturned(values) == [outcome |-> "returned", values |-> values]

TimeThrown(name) == [outcome |-> name, values |-> {}]

\* randomInt(minimum, maximum) called with two integers: node:crypto throws
\* ERR_OUT_OF_RANGE, a RangeError, unless maximum is greater than minimum
randomIntCall(minimum, maximum) ==
    IF maximum <= minimum THEN TimeThrown("RangeError")
    ELSE TimeReturned(randomInt(minimum, maximum))

\* part_000 lines 271-280.  incrementMinimum is
\* minimum + ((maximum - minimum) * attemptCurrent / attempts): when the
\* division leaves a remainder, or attempts is 0, it is not a safe integer
\* and randomInt throws ERR_INVALID_ARG_TYPE, a TypeError
resolveIntervalTime(p) ==
    IF p.maximum = p.minimum THEN TimeReturned({p.maximum})
    ELSE IF p.increment
    THEN IF p.attempts = 0
            \/ ((p.maximum - p.minimum) * p.attemptCurrent) % p.attempts # 0
         THEN TimeThrown("TypeError")
         ELSE randomIntCall(
                  p.minimum + (((p.maximum - p.minimum) * p.attemptCurrent) \div p.attempts),
                  p.maximum)
    ELSE randomIntCall(p.minimum, p.maximum)

\* the field initialisers of class ExFetch of v0.1.0 (part_000 lines 287-304)
LegacyPaginateDefault ==
    [amount |-> Infinity, interval |-> IntervalStatus(FALSE, 0, 0),
     throwOnInvalidHeaderLink |-> TRUE]

LegacyRetryDefault == [attempts |-> 4, interval |-> IntervalStatus(TRUE, 1000, 60000)]

\* options.retry: [attempts, interval, delay, pause], each <<>> or <<v>>; an
\* interval is [kind |-> "number", value |-> n] or
\* [kind |-> "object", increment, minimum, maximum]
LegacyRetryOptions(attempts, interval, delay, pause) ==
    [attempts |-> attempts, interval |-> interval, delay |-> delay, pause |-> pause]

\* line 313: options.retry.interval ??= options.retry.delay ?? options.retry.pause
LegacyRetryInterval(retry) ==
    IF retry.interval # <<>> THEN retry.interval
    ELSE IF retry.delay # <<>> THEN retry.delay
    ELSE retry.pause

(***************************************************************************)
(* The constructor of v0.1.0 (part_000 lines 310-341) called with          *)
(* options: [httpStatusCodesRetryable, retry, timeout]; options.paginate,  *)
(* options.event and options.userAgent are not given, so #paginate is      *)
(* what resolvePaginateOptions({}, ..., this.#paginate) returns, its       *)
(* initial value.  The value of LegacyRetryInterval is computed (line      *)
(* 313) and read nowhere.                                                  *)
(***************************************************************************)
ExFetchLegacyConstructor(options) ==
    IF options.retry.attempts # <<>>
       /\ ~(NumberIsSafeInteger(options.retry.attempts[1])
             /\ options.retry.attempts[1] >= 0)
    THEN [ok |-> FALSE]
    ELSE IF options.timeout # <<>>
            /\ options.timeout[1] # Infinity
            /\ ~(NumberIsSafeInteger(options.timeout[1]) /\ options.timeout[1] > 0)
    THEN [ok |-> FALSE]
    ELSE [ok |-> TRUE,
          httpStatusCodesRetryable |->
              IF options.httpStatusCodesRetryable = <<>>
              THEN httpStatusCodesRetryable
              ELSE options.httpStatusCodesRetryable[1],
          paginate |-> LegacyPaginateDefault,
          retry |-> [LegacyRetryDefault EXCEPT
                        !.attempts = IF options.retry.attempts # <<>>
                                     THEN options.retry.attempts[1] ELSE @],
          timeout |-> IF options.timeout # <<>> THEN options.timeout[1] ELSE Infinity]

\* lines 116-137 without the range test of the maximum (lines 125-127)
resolvePaginateOptionsUnchecked(input, original) ==
    LET delay == IF input.delay # <<>>
                 THEN resolveDelayOptions(input.delay[1], original.delay)
                 ELSE [ok |-> TRUE, value |-> original.delay]
    IN  [ok |-> delay.ok,
         value |->
           [delay |-> delay.value,
            linkUpNextPage |->
                IF input.linkUpNextPage # <<>>
                THEN input.linkUpNextPage[1] ELSE original.linkUpNextPage,
            maximum |->
                IF input.maximum # <<>> THEN input.maximum[1] ELSE original.maximum,
            onEvent |->
                IF input.onEvent # <<>> THEN input.onEvent ELSE original.onEvent,
            throwOnInvalidHeaderLink |->
                IF input.throwOnInvalidHeaderLink # <<>>
                THEN input.throwOnInvalidHeaderLink[1]
                ELSE original.throwOnInvalidHeaderLink]]

\* input: [delay, linkUpNextPage, maximum, onEvent, throwOnInvalidHeaderLink],
\* each <<>> or <<v>>; an onEvent is named by what the callback does:
\* "observe" (it looks at the snapshot) or "abort" (it aborts the signal of
\* the caller)
resolvePaginateOptions(input, original) ==
    LET delay == IF input.delay # <<>>
                 THEN resolveDelayOptions(input.delay[1], original.delay)
                 ELSE [ok |-> TRUE, value |-> original.delay]
    IN  IF ~delay.ok
        THEN [ok |-> FALSE, value |-> original]
        ELSE IF input.maximum # <<>>
                /\ input.maximum[1] # Infinity
                /\ ~(NumberIsSafeInteger(input.maximum[1]) /\ input.maximum[1] > 0)
        THEN [ok |-> FALSE, value |-> original]
        ELSE [ok |-> TRUE,
              value |->
                [delay |-> delay.value,
                 linkUpNextPage |->
                     IF input.linkUpNextPage # <<>>
                     THEN input.linkUpNextPage[1] ELSE original.linkUpNextPage,
                 maximum |->
                     IF input.maximum # <<>>
                     THEN input.maximum[1] ELSE original.maximum,
                 onEvent |->
                     IF input.onEvent # <<>> THEN input.onEvent ELSE original.onEvent,
                 throwOnInvalidHeaderLink |->
                     IF input.throwOnInvalidHeaderLink # <<>>
                     THEN input.throwOnInvalidHeaderLink[1]
                     ELSE original.throwOnInvalidHeaderLink]]

\* a paginate input that sets nothing ({})
NoPaginateInput ==
    [delay |-> <<>>, linkUpNextPage |-> <<>>, maximum |-> <<>>, onEvent |-> <<>>,
     throwOnInvalidHeaderLink |-> <<>>]

\* the field initialisers of class ExFetch
PaginateDefault ==
    [delay |-> DelayOptions(0, 0), linkUpNextPage |-> "default",
     maximum |-> Infinity, onEvent |-> <<>>, throwOnInvalidHeaderLink |-> TRUE]

RedirectDefault == [delay |-> DelayOptions(0, 0), maximum |-> Infinity, onEvent |-> <<>>]

RetryDefault == [delay |-> DelayOptions(1000, 60000), maximum |-> 4, onEvent |-> <<>>]

(***************************************************************************)
(* The constructor.  options: [httpStatusCodesRetryable, paginate,         *)
(* redirectDelay, redirectMaximum, redirectOnEvent, retryDelay,            *)
(* retryMaximum, retryOnEvent, timeout], each <<>> or <<v>> except         *)
(* paginate, which is a paginate input record.                             *)
(***************************************************************************)
ExFetchConstructor(options) ==
    LET paginateResolve == resolvePaginateOptions(options.paginate, PaginateDefault)
        redirectDelay ==
            IF options.redirectDelay # <<>>
            THEN resolveDelayOptions(options.redirectDelay[1], RedirectDefault.delay)
            ELSE [ok |-> TRUE, value |-> RedirectDefault.delay]
        redirectMaximumOk ==
            options.redirectMaximum = <<>>
            \/ (NumberIsSafeInteger(options.redirectMaximum[1])
                /\ options.redirectMaximum[1] >= 0)
        retryDelay ==
            IF options.retryDelay # <<>>
            THEN resolveDelayOptions(options.retryDelay[1], RetryDefault.delay)
            ELSE [ok |-> TRUE, value |-> RetryDefault.delay]
        retryMaximumOk ==
            options.retryMaximum = <<>>
            \/ (NumberIsSafeInteger(options.retryMaximum[1])
                /\ options.retryMaximum[1] >= 0)
        timeoutOk ==
            options.timeout = <<>>
            \/ options.timeout[1] = Infinity
            \/ (NumberIsSafeInteger(options.timeout[1]) /\ options.timeout[1] > 0)
    IN  [ok |-> paginateResolve.ok /\ redirectDelay.ok /\ redirectMaximumOk
                /\ retryDelay.ok /\ retryMaximumOk /\ timeoutOk,
         httpStatusCodesRetryable |->
             IF options.httpStatusCodesRetryable = <<>>
             THEN httpStatusCodesRetryable
             ELSE options.httpStatusCodesRetryable[1],
         paginate |-> paginateResolve.value,
         redirect |->
             [delay |-> redirectDelay.value,
              maximum |-> IF options.redirectMaximum # <<>>
                          THEN options.redirectMaximum[1]
                          ELSE RedirectDefault.maximum,
              onEvent |-> options.redirectOnEvent],
         retry |->
             [delay |-> retryDelay.value,
              maximum |-> IF options.retryMaximum # <<>>
                          THEN options.retryMaximum[1]
                          ELSE RetryDefault.maximum,
              onEvent |-> options.retryOnEvent],
         timeout |-> IF options.timeout # <<>> THEN options.timeout[1] ELSE Infinity]

(***************************************************************************)
(* State.                                                                  *)
(***************************************************************************)
VARIABLES
    \* the ExFetch instance
    statusCodesRetryable,   \* #httpStatusCodesRetryable
    paginate,               \* #paginate
    redirect,               \* #redirect
    retry,                  \* #retry
    timeout,                \* #timeout
    \* the last new ExFetch(options): [options, outcome], outcome "ok" or
    \* "RangeError"
    construction,
    \* the call the caller made: "none", "fetch", "fetchPaginate", or the
    \* helpers "exFetch", "exFetchPaginate"
    caller,
    \* the caller's AbortSignal (init.signal): "none", "live" or "aborted"
    callerSignal,
    \* the signal AbortSignal.timeout made for the running fetch
    timeoutSignal,
    \* ExFetch.fetch: its arguments, its locals, and where it is suspended
    fpc,                    \* "idle", "transport", "delay", "done", "failed"
    input,
    init,                   \* [redirect |-> <<>> or <<mode>>, signal |-> <<>> or <<"caller">>]
    requestRedirectControl,
    requestSignal,          \* "none", "caller" or "timeout"
    requestFetchInput,
    redirects,
    retries,
    response,
    \* the arguments of the transport call in flight (or of the last one)
    request,                \* [url, redirect, signal]
    \* the setDelay promise fetch awaits: [kind, value, state]
    delay,
    \* what fetch returned (fpc = "done") or threw (fpc = "failed")
    result,
    error,
    \* history of the running fetch
    calls,                  \* transport calls made
    received,               \* responses received
    run,                    \* leading responses that asked for a retry
    waits,                  \* setDelay calls made: [redirect, retry]
    \* ExFetch.fetchPaginate: its locals, and where it is suspended
    ppc,                    \* "idle", "delay", "fetch", "done", "failed"
    optionsOverride,
    options,
    page,
    uri,                    \* <<>> or <<href>>
    uriLookUp,
    responses,
    pageDelay,              \* the setDelay promise fetchPaginate awaits
    pageError,              \* what fetchPaginate threw (ppc = "failed"): [name, url]
    pageWaits,              \* history: setDelay calls made between pages
    pageCalls,              \* history: calls of this.fetch made
    \* history of the running call: the onEvent calls made, oldest first
    events,
    \* the last call of a delay resolver: [function, arguments, outcome, value]
    timeCall,
    \* ExFetch v0.1.0 (src/unnamed/part_000): the last new ExFetch(options),
    \* the instance it made, and the locals of its fetch
    legacyConstruction,     \* [options, outcome]
    legacyInstance,         \* [httpStatusCodesRetryable, paginate, retry, timeout]
    legacyPc,               \* "idle", "transport", "delay", "done", "failed"
    legacyAttempt,          \* attempt
    legacyResponse,         \* response
    legacyIntervalTime,     \* intervalTime: <<>> or <<milliseconds>>
    legacyError,            \* what fetch threw (legacyPc = "failed")
    \* one HTTPHeaderLink instance and the calls made on it
    linkEntries,            \* #entries
    linkCall,               \* the last call: [method, arguments, outcome, ...]
    linkHistory,            \* history: what the successful add calls contributed
    \* one setDelay call on its own: the promise it returned, its timer, the
    \* abort listener on its signal, and the time since the call
    waiting

instanceVars == <<statusCodesRetryable, paginate, redirect, retry, timeout, construction>>

signalVars == <<callerSignal, timeoutSignal>>

fetchVars ==
    <<fpc, input, init, requestRedirectControl, requestSignal, requestFetchInput,
      redirects, retries, response, request, delay, result, error,
      calls, received, run, waits>>

\* signal: the signal setDelay was given, "none", "caller" or "timeout"
NoDelay == [kind |-> "none", value |-> 0, state |-> "none", signal |-> "none"]

NoRequest == [url |-> "", redirect |-> <<>>, signal |-> "none"]

NoWaits == [redirect |-> 0, retry |-> 0]

pageVars ==
    <<ppc, optionsOverride, options, page, uri, uriLookUp, responses, pageDelay, pageError,
      pageWaits, pageCalls>>

legacyVars ==
    <<legacyConstruction, legacyInstance, legacyPc, legacyAttempt, legacyResponse,
      legacyIntervalTime, legacyError>>

linkVars == <<linkEntries, linkCall, linkHistory>>

\* the state of the parts of the library that a call of the v0.2 ExFetch
\* leaves alone
libraryVars == <<timeCall, legacyVars, linkVars, waiting>>

vars == <<instanceVars, caller, signalVars, fetchVars, pageVars, events, libraryVars>>

\* AbortSignal.aborted of the signal a request or a delay was given
SignalAborted(signal) ==
    \/ signal = "caller" /\ callerSignal = "aborted"
    \/ signal = "timeout" /\ timeoutSignal = "aborted"

(***************************************************************************)
(* The decisions of ExFetch.fetch.                                         *)
(***************************************************************************)
\* line 266 without the test of the maximum
RedirectControlAnyFollow(initRedirect, redirectMaximum) == initRedirect = <<"follow">>

\* line 266: fetch handles the redirects itself
RedirectControl(initRedirect, redirectMaximum) ==
    initRedirect = <<"follow">> /\ redirectMaximum # Infinity

\* the test of line 284 left out
StatusNotModifiedLeftOut(r) == FALSE

\* line 284: the response ends the loop whatever else holds
StatusNotModified(r) == r.status = 304

\* line 286: the response is handled by the redirect branch
RedirectBranch(control, status) ==
    control /\ status \in httpStatusCodesRedirectable

\* the test of line 287 with > in place of >=
RedirectBreakLate(redirectsNow, redirectMaximum) == redirectsNow > redirectMaximum

\* line 287: the redirect counter has reached its maximum
RedirectBreak(redirectsNow, redirectMaximum) == redirectsNow >= redirectMaximum

\* the test of lines 315-317 with the counter taken as a count of attempts
RetryBreakEarly(r, retriesNow, retryMaximum, retryableNow) ==
    \/ ResponseOk(r)
    \/ retriesNow + 1 >= retryMaximum
    \/ r.status \notin retryableNow

\* the test of lines 315-317 without response.ok
RetryBreakNoOk(r, retriesNow, retryMaximum, retryableNow) ==
    \/ retriesNow >= retryMaximum
    \/ r.status \notin retryableNow

\* lines 315-317 with the retryable set as the constructor made it
RetryBreakConstructed(r, retriesNow, retryMaximum, retryableNow) ==
    \/ ResponseOk(r)
    \/ retriesNow >= retryMaximum
    \/ r.status \notin ExFetchConstructor(construction.options).httpStatusCodesRetryable

\* line 315 with the retry counter allowed to pass the maximum by one
RetryBreakLate(r, retriesNow, retryMaximum, retryableNow) ==
    \/ ResponseOk(r)
    \/ retriesNow > retryMaximum
    \/ r.status \notin retryableNow

\* lines 315-317: the retry decision ends the loop
RetryBreak(r, retriesNow, retryMaximum, retryableNow) ==
    \/ ResponseOk(r)
    \/ retriesNow >= retryMaximum
    \/ r.status \notin retryableNow

\* line 339: the condition of the do-while loop
LoopCondition(retriesNow, retryMaximum) == retriesNow <= retryMaximum

(***************************************************************************)
(* setDelay in full, lines 144-163.  A call is [value, signal, timer,      *)
(* listener, promise, reason, elapsed, resolveCalls, rejectCalls]: signal  *)
(* "none" (no signal given), "live" or "aborted"; timer "none", "armed",   *)
(* "cleared" or "fired"; listener TRUE while abort is registered on the    *)
(* signal; promise "none", "pending", "resolved" or "rejected"; reason <<>> *)
(* or <<what the promise was rejected with>>; elapsed the milliseconds     *)
(* since the call; resolveCalls and rejectCalls the calls made of resolve  *)
(* and reject of the promise.                                              *)
(***************************************************************************)
NoWaiting ==
    [value |-> 0, signal |-> "none", timer |-> "none", listener |-> FALSE,
     promise |-> "none", reason |-> <<>>, elapsed |-> 0, resolveCalls |-> 0,
     rejectCalls |-> 0]

\* signal.reason of an aborted signal
SignalReason == "AbortError"

\* lines 144-163: what setDelay(value, signal) returns and sets up
setDelay(value, signalState) ==
    IF value <= 0
    THEN [NoWaiting EXCEPT !.value = value, !.signal = signalState,
                           !.promise = "resolved", !.resolveCalls = 1]
    ELSE IF signalState = "aborted"
    THEN [NoWaiting EXCEPT !.value = value, !.signal = signalState,
                           !.promise = "rejected", !.reason = <<SignalReason>>,
                           !.rejectCalls = 1]
    ELSE [NoWaiting EXCEPT !.value = value, !.signal = signalState,
                           !.promise = "pending", !.timer = "armed",
                           !.listener = (signalState # "none")]

\* a promise settles at the first call of resolve or reject only
PromiseSettle(w, state) == IF w.promise = "pending" THEN state ELSE w.promise

\* lines 156-159 without the removeEventListener of line 157
setDelayDoneListening(w) ==
    [w EXCEPT !.timer = "fired",
              !.promise = PromiseSettle(w, "resolved"),
              !.resolveCalls = @ + 1]

\* lines 156-159: done, the callback of the timer
setDelayDone(w) ==
    [w EXCEPT !.timer = "fired",
              !.listener = FALSE,
              !.promise = PromiseSettle(w, "resolved"),
              !.resolveCalls = @ + 1]

\* lines 152-155: abort, the once-only listener of the signal
setDelayAbort(w) ==
    [w EXCEPT !.timer = IF @ = "armed" THEN "cleared" ELSE @,
              !.listener = FALSE,
              !.promise = PromiseSettle(w, "rejected"),
              !.reason = IF w.promise = "pending" THEN <<SignalReason>> ELSE @,
              !.rejectCalls = @ + 1]

\* lines 144-150: how the promise of setDelay(value, signal) starts out,
\* aborted being signal?.aborted at the call
setDelayStart(value, aborted) ==
    IF value <= 0 THEN "resolved"
    ELSE IF aborted THEN "rejected"
    ELSE "pending"

\* the same for a signal as it is in the state
setDelayState(value, signal) == setDelayStart(value, SignalAborted(signal))

\* a snapshot that always says the wait is 0 milliseconds
EventWithoutWait(kind, countCurrent, countMaximum, after, url, statusCode, sent) ==
    [kind |-> kind, countCurrent |-> countCurrent, countMaximum |-> countMaximum,
     after |-> 0, url |-> url, statusCode |-> statusCode, sent |-> sent]

\* the snapshot an onEvent callback was given (lines 303-310, 328-335,
\* 358-363); sent is the number of transport calls (for "paginate": of
\* this.fetch calls) made when it was called
Event(kind, countCurrent, countMaximum, after, url, statusCode, sent) ==
    [kind |-> kind, countCurrent |-> countCurrent, countMaximum |-> countMaximum,
     after |-> after, url |-> url, statusCode |-> statusCode, sent |-> sent]

\* the callback aborts the signal of the caller while it runs
ObserverAborts(observer) == observer = <<"abort">> /\ callerSignal = "live"

\* signal.aborted once the callback has run
AbortedAfter(signal, observer) ==
    SignalAborted(signal) \/ (signal = "caller" /\ ObserverAborts(observer))

(***************************************************************************)
(* ExFetch.fetch, lines 258-341.  One action per stretch of code between   *)
(* two suspensions (await).                                                *)
(***************************************************************************)
\* line 259: a file: URL goes straight to the transport
FetchBypass(in) == URLProtocol(in) = "file:"

\* lines 267-270 with the timeout taken before the signal of the caller
RequestSignalTimeoutFirst(ini, timeoutNow) ==
    IF timeoutNow # Infinity THEN "timeout"
    ELSE IF ini.signal # <<>> THEN "caller"
    ELSE "none"

\* lines 267-270: the signal that governs the call
RequestSignal(ini, timeoutNow) ==
    IF ini.signal # <<>> THEN "caller"
    ELSE IF timeoutNow # Infinity THEN "timeout"
    ELSE "none"

\* lines 258-282: from the call to the first transport call, on an instance
\* whose #redirect.maximum and #timeout are redirectMaximum and timeoutNow
FetchBeginOn(in, ini, redirectMaximum, timeoutNow) ==
    LET control == RedirectControl(ini.redirect, redirectMaximum)
        signal == RequestSignal(ini, timeoutNow)
    IN  /\ input' = in
        /\ init' = ini
        /\ IF FetchBypass(in)
           THEN /\ requestRedirectControl' = FALSE
                /\ requestSignal' = IF ini.signal # <<>> THEN "caller" ELSE "none"
                /\ timeoutSignal' = "none"
                /\ request' = [url |-> in, redirect |-> ini.redirect,
                               signal |-> IF ini.signal # <<>> THEN "caller" ELSE "none"]
           ELSE /\ requestRedirectControl' = control
                /\ requestSignal' = signal
                /\ timeoutSignal' = IF signal = "timeout" THEN "live" ELSE "none"
                /\ request' = [url |-> in,
                               redirect |-> IF control THEN <<"manual">> ELSE ini.redirect,
                               signal |-> signal]
        /\ requestFetchInput' = in
        /\ redirects' = 0
        /\ retries' = 0
        /\ response' = NoResponse
        /\ delay' = NoDelay
        /\ result' = NoResponse
        /\ error' = "none"
        /\ calls' = 1
        /\ received' = 0
        /\ run' = 0
        /\ waits' = NoWaits
        /\ fpc' = "transport"

\* the same on the instance of the state
FetchBegin(in, ini) == FetchBeginOn(in, ini, redirect.maximum, timeout)

\* break / return response (lines 284, 288, 292, 299, 318, 340)
FetchReturn(r, redirectsNext) ==
    /\ fpc' = "done"
    /\ result' = r
    /\ redirects' = redirectsNext
    /\ UNCHANGED <<requestFetchInput, retries, request, delay, error, calls, waits>>
    /\ UNCHANGED <<callerSignal, events>>

\* the onEvent call, when one is configured (lines 302-311, 327-337), and
\* await setDelay(delayTime, requestSignal) (lines 312, 338)
FetchDelay(kind, value, url, redirectsNext, retriesNext) ==
    /\ fpc' = "delay"
    /\ \E policy \in {IF kind = "redirect" THEN redirect ELSE retry} :
          /\ events' =
                IF policy.onEvent = <<>> THEN events
                ELSE Append(events,
                            Event(kind,
                                  IF kind = "redirect" THEN redirectsNext ELSE retriesNext,
                                  policy.maximum, value, url, response'.status, calls))
          /\ callerSignal' = IF ObserverAborts(policy.onEvent) THEN "aborted"
                             ELSE callerSignal
          /\ delay' = [kind |-> kind, value |-> value,
                       state |-> setDelayStart(
                                     value, AbortedAfter(requestSignal, policy.onEvent)),
                       signal |-> requestSignal]
    /\ requestFetchInput' = url
    /\ redirects' = redirectsNext
    /\ retries' = retriesNext
    /\ waits' = [waits EXCEPT ![kind] = @ + 1]
    /\ UNCHANGED <<request, result, error, calls>>

\* a response that asks for a retry and names no time: not successful, its
\* status in the retryable set, no Retry-After header
AsksRetry(r) ==
    ~ResponseOk(r) /\ r.status \in statusCodesRetryable /\ r.retryAfter = <<>>

\* lines 290-300 with the URL of the call taken when the Location header
\* gives none
RedirectTargetOrInput(r, in) ==
    IF r.location = <<>> THEN <<in>>
    ELSE IF URLResolve(r.location[1], in) = <<>> THEN <<in>>
    ELSE URLResolve(r.location[1], in)

\* line 296 resolving the Location against the URL of the request that was
\* answered with it
RedirectTargetFromCurrent(r, in) ==
    IF r.location = <<>> THEN <<>> ELSE URLResolve(r.location[1], requestFetchInput)

\* lines 290-300: the URL a redirect response sends the request to, <<>>
\* when it has no Location header (291) or new URL(redirectURL, input)
\* throws (295-300)
RedirectTarget(r, in) ==
    IF r.location = <<>> THEN <<>> ELSE URLResolve(r.location[1], in)

\* lines 320-326 with the Retry-After header never looked at
RetryDelayTimeNoHeader(r, retryDelay) == resolveDelayTime(retryDelay)

\* lines 320-326: the times the retry wait can take: the remaining time of
\* the Retry-After resolver, or, when building it throws, a time resolved
\* from the retry delay
RetryDelayTime(r, retryDelay) ==
    IF RetryAfterRemainTimeMilliseconds(r) # <<>>
    THEN {RetryAfterRemainTimeMilliseconds(r)[1]}
    ELSE resolveDelayTime(retryDelay)

\* lines 283-338: the transport call resolves with r
FetchRespond(r) ==
    /\ UNCHANGED libraryVars
    /\ fpc = "transport"
    /\ ~SignalAborted(request.signal)
    /\ response' = r
    /\ received' = received + 1
    /\ run' = IF run = received /\ AsksRetry(r) THEN run + 1 ELSE run
    /\ IF FetchBypass(input)
       THEN FetchReturn(r, redirects)
       ELSE IF StatusNotModified(r)
       THEN FetchReturn(r, redirects)
       ELSE IF RedirectBranch(requestRedirectControl, r.status)
       THEN IF RedirectBreak(redirects, redirect.maximum)
            THEN FetchReturn(r, redirects)
            ELSE IF RedirectTarget(r, input) = <<>>
            THEN FetchReturn(r, IF r.location = <<>> THEN redirects
                                ELSE redirects + 1)
            ELSE \E delayTime \in resolveDelayTime(redirect.delay) :
                    FetchDelay("redirect", delayTime, RedirectTarget(r, input)[1],
                               redirects + 1, retries)
       ELSE IF RetryBreak(r, retries, retry.maximum, statusCodesRetryable)
       THEN FetchReturn(r, redirects)
       ELSE \E delayTime \in RetryDelayTime(r, retry.delay) :
               FetchDelay("retry", delayTime, requestFetchInput,
                          redirects, retries + 1)
    /\ UNCHANGED <<input, init, requestRedirectControl, requestSignal>>
    /\ UNCHANGED <<instanceVars, caller, timeoutSignal, pageVars>>

\* a rejection of the transport call caught and answered with a retry wait
TransportFailRetried ==
    /\ UNCHANGED libraryVars
    /\ fpc = "transport"
    /\ UNCHANGED <<input, init, requestRedirectControl, requestSignal, response,
                   received, run>>
    /\ FetchDelay("retry", 1, requestFetchInput, redirects, retries + 1)
    /\ UNCHANGED <<instanceVars, caller, timeoutSignal, pageVars>>

\* line 283, the await is in no try block: the transport call rejects (a
\* network error, or the abort of its signal) and fetch rejects with it
TransportFail ==
    /\ UNCHANGED <<libraryVars, events>>
    /\ fpc = "transport"
    /\ fpc' = "failed"
    /\ error' = IF SignalAborted(request.signal) THEN "abort" ELSE "network"
    /\ UNCHANGED <<input, init, requestRedirectControl, requestSignal,
                   requestFetchInput, redirects, retries, response, request, delay,
                   result, calls, received, run, waits>>
    /\ UNCHANGED <<instanceVars, caller, signalVars, pageVars>>

\* the delay resolves and the next transport call is made with the URL that
\* fetch was called with
DelayDoneToInput ==
    /\ UNCHANGED <<libraryVars, events>>
    /\ fpc = "delay"
    /\ delay.state \in {"resolved", "pending"}
    /\ delay' = NoDelay
    /\ IF LoopCondition(retries, retry.maximum)
       THEN /\ fpc' = "transport"
            /\ request' = [request EXCEPT !.url = IF delay.kind = "retry" THEN input
                                                  ELSE requestFetchInput]
            /\ calls' = calls + 1
            /\ UNCHANGED result
       ELSE /\ fpc' = "done"
            /\ result' = response
            /\ UNCHANGED <<request, calls>>
    /\ UNCHANGED <<input, init, requestRedirectControl, requestSignal,
                   requestFetchInput, redirects, retries, response, error,
                   received, run, waits>>
    /\ UNCHANGED <<instanceVars, caller, signalVars, pageVars>>

\* the delay resolves (its timer fires, or it was resolved from the start):
\* the loop condition of line 339, then the transport call of line 282
DelayDone ==
    /\ UNCHANGED <<libraryVars, events>>
    /\ fpc = "delay"
    /\ delay.state \in {"resolved", "pending"}
    /\ delay' = NoDelay
    /\ IF LoopCondition(retries, retry.maximum)
       THEN /\ fpc' = "transport"
            /\ request' = [request EXCEPT !.url = requestFetchInput]
            /\ calls' = calls + 1
            /\ UNCHANGED result
       ELSE /\ fpc' = "done"
            /\ result' = response
            /\ UNCHANGED <<request, calls>>
    /\ UNCHANGED <<input, init, requestRedirectControl, requestSignal,
                   requestFetchInput, redirects, retries, response, error,
                   received, run, waits>>
    /\ UNCHANGED <<instanceVars, caller, signalVars, pageVars>>

\* the delay rejects with the reason of its signal (lines 149, 154)
DelayReject ==
    /\ UNCHANGED <<libraryVars, events>>
    /\ fpc = "delay"
    /\ delay.state = "rejected"
    /\ fpc' = "failed"
    /\ error' = "abort"
    /\ UNCHANGED <<input, init, requestRedirectControl, requestSignal,
                   requestFetchInput, redirects, retries, response, request, delay,
                   result, calls, received, run, waits>>
    /\ UNCHANGED <<instanceVars, caller, signalVars, pageVars>>

(***************************************************************************)
(* Abort signals.  An abort rejects, at once, the pending delay that       *)
(* listens to the signal (lines 152-155); a transport call in flight on    *)
(* the signal can from then on only reject (TransportFail).                *)
(***************************************************************************)
\* a delay without the abort listener of lines 152-155
AbortDelayNotHeard(d, listens) == d

\* lines 152-155: the abort listener of a pending delay clears the timer and
\* rejects the promise with the reason of the signal
AbortDelay(d, listens) ==
    IF d.state = "pending" /\ listens THEN [d EXCEPT !.state = "rejected"] ELSE d

\* the caller aborts the signal it passed as init.signal
AbortCaller ==
    /\ UNCHANGED <<libraryVars, events>>
    /\ callerSignal = "live"
    /\ fpc \in {"transport", "delay"} \/ ppc = "delay"
    /\ callerSignal' = "aborted"
    /\ delay' = AbortDelay(delay, delay.signal = "caller")
    /\ pageDelay' = AbortDelay(pageDelay, pageDelay.signal = "caller")
    /\ UNCHANGED <<fpc, input, init, requestRedirectControl, requestSignal,
                   requestFetchInput, redirects, retries, response, request,
                   result, error, calls, received, run, waits>>
    /\ UNCHANGED <<ppc, optionsOverride, options, page, uri, uriLookUp, responses,
                   pageError, pageWaits, pageCalls>>
    /\ UNCHANGED <<instanceVars, caller, timeoutSignal>>

\* the timer of AbortSignal.timeout(this.#timeout) fires (line 269)
TimeoutFire ==
    /\ UNCHANGED <<libraryVars, events>>
    /\ timeoutSignal = "live"
    /\ fpc \in {"transport", "delay"}
    /\ timeoutSignal' = "aborted"
    /\ delay' = AbortDelay(delay, delay.signal = "timeout")
    /\ UNCHANGED <<fpc, input, init, requestRedirectControl, requestSignal,
                   requestFetchInput, redirects, retries, response, request,
                   result, error, calls, received, run, waits>>
    /\ UNCHANGED <<instanceVars, caller, callerSignal, pageVars>>

(***************************************************************************)
(* The retryable status set, lines 240-251.                                *)
(***************************************************************************)
addHTTPStatusCodeRetryable(value) ==
    /\ UNCHANGED <<libraryVars, events>>
    /\ fpc \in {"idle", "transport", "delay"}
    /\ value \notin statusCodesRetryable
    /\ statusCodesRetryable' = statusCodesRetryable \cup {value}
    /\ UNCHANGED <<paginate, redirect, retry, timeout, construction>>
    /\ UNCHANGED <<caller, signalVars, fetchVars, pageVars>>

deleteHTTPStatusCodeRetryable(value) ==
    /\ UNCHANGED <<libraryVars, events>>
    /\ fpc \in {"idle", "transport", "delay"}
    /\ value \in statusCodesRetryable
    /\ statusCodesRetryable' = statusCodesRetryable \ {value}
    /\ UNCHANGED <<paginate, redirect, retry, timeout, construction>>
    /\ UNCHANGED <<caller, signalVars, fetchVars, pageVars>>

(***************************************************************************)
(* The caller of ExFetch.fetch.                                            *)
(***************************************************************************)
\* the states init.signal can be in when the call is made
SignalStates(ini) == IF ini.signal = <<>> THEN {"none"} ELSE {"live", "aborted"}

CallFetch(in, ini, signalState) ==
    /\ UNCHANGED <<libraryVars, events>>
    /\ caller = "none"
    /\ caller' = "fetch"
    /\ callerSignal' = signalState
    /\ FetchBegin(in, ini)
    /\ UNCHANGED <<instanceVars, pageVars>>

FetchIdle ==
    /\ fpc' = "idle"
    /\ input' = ""
    /\ requestRedirectControl' = FALSE
    /\ requestSignal' = "none"
    /\ requestFetchInput' = ""
    /\ redirects' = 0
    /\ retries' = 0
    /\ response' = NoResponse
    /\ request' = NoRequest
    /\ delay' = NoDelay
    /\ result' = NoResponse
    /\ error' = "none"
    /\ calls' = 0
    /\ received' = 0
    /\ run' = 0
    /\ waits' = NoWaits
    /\ timeoutSignal' = "none"

NoInit == [redirect |-> <<>>, signal |-> <<>>]

\* the caller takes the response, or the error, of its fetch call
FetchSettled ==
    /\ UNCHANGED libraryVars
    /\ caller \in {"fetch", "exFetch"}
    /\ fpc \in {"done", "failed"}
    /\ caller' = "none"
    /\ callerSignal' = "none"
    /\ init' = NoInit
    /\ FetchIdle
    /\ events' = <<>>
    /\ UNCHANGED <<instanceVars, pageVars>>

(***************************************************************************)
(* ExFetch.fetchPaginate, lines 351-390.                                   *)
(***************************************************************************)
\* the default #paginate.linkUpNextPage, lines 174-180:
\* [ok, uri]; not ok when new URL throws TypeError
linkUpNextPageDefault(currentHeaderLink, currentURL) ==
    LET currentHeaderLinkEntryNextPage == getByRel(currentHeaderLink, "next").entries
    IN  IF Len(currentHeaderLinkEntryNextPage) > 0
        THEN LET url == URLResolve(currentHeaderLinkEntryNextPage[1].uri, currentURL)
             IN  [ok |-> url # <<>>, uri |-> url]
        ELSE [ok |-> TRUE, uri |-> <<>>]

\* a linkUpNextPage function of the caller: it goes to the rel="prev" entry
linkUpNextPagePrev(currentHeaderLink, currentURL) ==
    LET entriesPrev == getByRel(currentHeaderLink, "prev").entries
    IN  IF Len(entriesPrev) > 0
        THEN LET url == URLResolve(entriesPrev[1].uri, currentURL)
             IN  [ok |-> url # <<>>, uri |-> url]
        ELSE [ok |-> TRUE, uri |-> <<>>]

\* line 382 calling the default function whatever the options hold
linkUpNextPageAlwaysDefault(function, currentHeaderLink, currentURL) ==
    linkUpNextPageDefault(currentHeaderLink, currentURL)

\* line 382: options.linkUpNextPage({ currentHeaderLink, currentURL })
linkUpNextPage(function, currentHeaderLink, currentURL) ==
    IF function = "default"
    THEN linkUpNextPageDefault(currentHeaderLink, currentURL)
    ELSE linkUpNextPagePrev(currentHeaderLink, currentURL)

\* an error fetchPaginate throws; url is the URL its message names, if any
PageError(name, url) == [name |-> name, url |-> url]

NoPageError == PageError("none", "")

\* the test of line 371 left out
PageOkAlways(r) == TRUE

\* line 371: the Link header of the page's response is read
PageOk(r) == ResponseOk(r)

\* the test of line 376 left out
PageThrowAlways(parsedOk, throwOnInvalidHeaderLink) == ~parsedOk

\* the throw of line 377 left out
PageThrowNever(parsedOk, throwOnInvalidHeaderLink) == FALSE

\* lines 375-379: the failure of HTTPHeaderLink.parse is thrown on
PageThrow(parsedOk, throwOnInvalidHeaderLink) ==
    ~parsedOk /\ throwOnInvalidHeaderLink

\* the test of line 354 with the page counted from 0
PageLoopConditionFromZero(pageNow, maximum, uriNow) ==
    pageNow - 1 <= maximum /\ uriNow # <<>>

\* line 354: the condition of the for loop
PageLoopCondition(pageNow, maximum, uriNow) ==
    pageNow <= maximum /\ uriNow # <<>>

\* line 365 with no signal handed to setDelay
PageDelaySignalLeftOut(ini) == "none"

\* line 365: the signal of the wait between two pages is init?.signal
PageDelaySignal(ini) == IF ini.signal # <<>> THEN "caller" ELSE "none"

\* lines 367-369: the call of this.fetch for the page at url
PageFetchOn(url, ini, redirectMaximum, timeoutNow) ==
    /\ uriLookUp' = url
    /\ uri' = <<>>
    /\ pageCalls' = pageCalls + 1
    /\ ppc' = "fetch"
    /\ FetchBeginOn(url, ini, redirectMaximum, timeoutNow)

PageFetch(url, ini) == PageFetchOn(url, ini, redirect.maximum, timeout)

\* lines 351-369: fetchPaginate up to the first this.fetch, on an instance
\* whose #paginate, #redirect.maximum and #timeout are paginateNow,
\* redirectMaximum and timeoutNow
fetchPaginateBegin(in, ini, override, paginateNow, redirectMaximum, timeoutNow) ==
    LET resolved == resolvePaginateOptions(override, paginateNow)
    IN  /\ optionsOverride' = override
        /\ IF ~resolved.ok \/ ~PageLoopCondition(1, resolved.value.maximum, <<in>>)
           THEN /\ ppc' = IF resolved.ok THEN "done" ELSE "failed"
                /\ pageError' = IF resolved.ok THEN NoPageError
                                 ELSE PageError("RangeError", "")
                /\ init' = ini
                /\ UNCHANGED <<options, page, uri, uriLookUp, responses, pageDelay,
                               pageWaits, pageCalls>>
                /\ UNCHANGED <<timeoutSignal, fpc, input, requestRedirectControl,
                               requestSignal, requestFetchInput, redirects, retries,
                               response, request, delay, result, error, calls,
                               received, run, waits>>
           ELSE /\ options' = resolved.value
                /\ responses' = <<>>
                /\ page' = 1
                /\ PageFetchOn(in, ini, redirectMaximum, timeoutNow)
                /\ UNCHANGED <<pageDelay, pageError, pageWaits>>

\* fetchPaginate keeping the resolved override as the policy of the instance
CallFetchPaginateStoring(in, ini, signalState, override) ==
    /\ UNCHANGED <<libraryVars, events>>
    /\ caller = "none"
    /\ caller' = "fetchPaginate"
    /\ callerSignal' = signalState
    /\ fetchPaginateBegin(in, ini, override, paginate, redirect.maximum, timeout)
    /\ \E resolved \in {resolvePaginateOptions(override, paginate)} :
          paginate' = IF resolved.ok THEN resolved.value ELSE paginate
    /\ UNCHANGED <<statusCodesRetryable, redirect, retry, timeout, construction>>

\* the caller calls fetchPaginate on the instance of the state
CallFetchPaginate(in, ini, signalState, override) ==
    /\ UNCHANGED <<libraryVars, events>>
    /\ caller = "none"
    /\ caller' = "fetchPaginate"
    /\ callerSignal' = signalState
    /\ fetchPaginateBegin(in, ini, override, paginate, redirect.maximum, timeout)
    /\ UNCHANGED instanceVars

\* lines 370-388, then 354-366: this.fetch returned; the rest of the loop
\* body, the loop test, and for a further page the onEvent call, when one
\* is configured, and the delay before the page
PageFetched ==
    /\ UNCHANGED libraryVars
    /\ ppc = "fetch"
    /\ fpc = "done"
    /\ responses' = Append(responses, result)
    /\ \E parsed \in {HTTPHeaderLinkParse(result)} :
          IF ~PageOk(result)
          THEN /\ page' = page + 1
               /\ ppc' = "done"
               /\ UNCHANGED <<uri, pageDelay, pageError, pageWaits, callerSignal, events>>
          ELSE IF PageThrow(parsed.ok, options.throwOnInvalidHeaderLink)
          THEN /\ ppc' = "failed"
               /\ pageError' = PageError("SyntaxError", uriLookUp)
               /\ UNCHANGED <<page, uri, pageDelay, pageWaits, callerSignal, events>>
          ELSE \E linked \in {IF parsed.ok
                              THEN linkUpNextPage(options.linkUpNextPage,
                                                  parsed.entries, uriLookUp)
                              ELSE [ok |-> TRUE, uri |-> <<>>]} :
                  IF ~linked.ok
                  THEN /\ ppc' = "failed"
                       /\ pageError' = PageError("TypeError", "")
                       /\ UNCHANGED <<page, uri, pageDelay, pageWaits, callerSignal,
                                      events>>
                  ELSE /\ page' = page + 1
                       /\ uri' = linked.uri
                       /\ UNCHANGED pageError
                       /\ IF PageLoopCondition(page + 1, options.maximum, linked.uri)
                          THEN \E delayTime \in resolveDelayTime(options.delay) :
                                  /\ ppc' = "delay"
                                  /\ events' =
                                        IF options.onEvent = <<>> THEN events
                                        ELSE Append(events,
                                                    Event("paginate", page + 1,
                                                          options.maximum, delayTime,
                                                          linked.uri[1], 0, pageCalls))
                                  /\ callerSignal' =
                                        IF ObserverAborts(options.onEvent)
                                        THEN "aborted" ELSE callerSignal
                                  /\ pageDelay' =
                                         [kind |-> "paginate", value |-> delayTime,
                                          state |-> setDelayStart(
                                                        delayTime,
                                                        AbortedAfter(PageDelaySignal(init),
                                                                     options.onEvent)),
                                          signal |-> PageDelaySignal(init)]
                                  /\ pageWaits' = pageWaits + 1
                          ELSE /\ ppc' = "done"
                               /\ UNCHANGED <<pageDelay, pageWaits, callerSignal,
                                              events>>
    /\ FetchIdle
    /\ UNCHANGED <<optionsOverride, options, uriLookUp, pageCalls, init>>
    /\ UNCHANGED <<instanceVars, caller>>

\* line 369: this.fetch threw; fetchPaginate throws the same
PageFetchFailed ==
    /\ UNCHANGED <<libraryVars, events>>
    /\ ppc = "fetch"
    /\ fpc = "failed"
    /\ ppc' = "failed"
    /\ pageError' = PageError(error, "")
    /\ FetchIdle
    /\ UNCHANGED <<optionsOverride, options, page, uri, uriLookUp, responses,
                   pageDelay, pageWaits, pageCalls, init>>
    /\ UNCHANGED <<instanceVars, caller, callerSignal>>

\* a wait between two pages that runs to its end, as PageDelayDone, or that
\* was rejected: the next page is fetched all the same
PageDelayNotAwaited ==
    /\ UNCHANGED <<libraryVars, events>>
    /\ ppc = "delay"
    /\ pageDelay' = NoDelay
    /\ PageFetch(uri[1], init)
    /\ UNCHANGED <<optionsOverride, options, page, responses, pageError, pageWaits>>
    /\ UNCHANGED <<instanceVars, caller, callerSignal>>

\* line 365 resolves: the next page is fetched
PageDelayDone ==
    /\ UNCHANGED <<libraryVars, events>>
    /\ ppc = "delay"
    /\ pageDelay.state \in {"resolved", "pending"}
    /\ pageDelay' = NoDelay
    /\ PageFetch(uri[1], init)
    /\ UNCHANGED <<optionsOverride, options, page, responses, pageError, pageWaits>>
    /\ UNCHANGED <<instanceVars, caller, callerSignal>>

\* line 365 rejects
PageDelayReject ==
    /\ UNCHANGED <<libraryVars, events>>
    /\ ppc = "delay"
    /\ pageDelay.state = "rejected"
    /\ ppc' = "failed"
    /\ pageError' = PageError("abort", "")
    /\ UNCHANGED <<optionsOverride, options, page, uri, uriLookUp, responses,
                   pageDelay, pageWaits, pageCalls>>
    /\ UNCHANGED <<instanceVars, caller, signalVars, fetchVars>>

\* the caller takes the responses, or the error, of its fetchPaginate call
PaginateSettled ==
    /\ UNCHANGED libraryVars
    /\ caller \in {"fetchPaginate", "exFetchPaginate"}
    /\ ppc \in {"done", "failed"}
    /\ caller' = "none"
    /\ callerSignal' = "none"
    /\ init' = NoInit
    /\ ppc' = "idle"
    /\ optionsOverride' = NoPaginateInput
    /\ options' = PaginateDefault
    /\ page' = 0
    /\ uri' = <<>>
    /\ uriLookUp' = ""
    /\ responses' = <<>>
    /\ pageDelay' = NoDelay
    /\ pageError' = NoPageError
    /\ pageWaits' = 0
    /\ pageCalls' = 0
    /\ events' = <<>>
    /\ UNCHANGED <<timeoutSignal, fpc, input, requestRedirectControl, requestSignal,
                   requestFetchInput, redirects, retries, response, request, delay,
                   result, error, calls, received, run, waits>>
    /\ UNCHANGED instanceVars

(***************************************************************************)
(* Construction, and the helpers that construct an instance for one call   *)
(* (exFetch and exFetchPaginate, lines 423-436; the statics                *)
(* ExFetch.fetch and ExFetch.fetchPaginate, lines 398-411, do the same).   *)
(***************************************************************************)
\* the fields of a new instance
NewInstance(instance) ==
    /\ statusCodesRetryable' = instance.httpStatusCodesRetryable
    /\ paginate' = instance.paginate
    /\ redirect' = instance.redirect
    /\ retry' = instance.retry
    /\ timeout' = instance.timeout

\* the outcome of new ExFetch(opts), as construction records it
Construction(opts, instance) ==
    [options |-> opts, outcome |-> IF instance.ok THEN "ok" ELSE "RangeError"]

\* new ExFetch(opts) between two calls: the caller goes on with the new
\* instance, or, when the constructor throws, with the one it had
Construct(opts) ==
    /\ UNCHANGED <<libraryVars, events>>
    /\ caller = "none"
    /\ \E instance \in {ExFetchConstructor(opts)} :
          /\ construction' = Construction(opts, instance)
          /\ IF instance.ok
             THEN NewInstance(instance)
             ELSE UNCHANGED <<statusCodesRetryable, paginate, redirect, retry, timeout>>
    /\ UNCHANGED <<caller, signalVars, fetchVars, pageVars>>

\* exFetch(in, ini, opts): new ExFetch(opts).fetch(in, ini)
CallExFetch(in, ini, signalState, opts) ==
    /\ UNCHANGED <<libraryVars, events>>
    /\ caller = "none"
    /\ caller' = "exFetch"
    /\ callerSignal' = signalState
    /\ \E instance \in {ExFetchConstructor(opts)} :
          /\ construction' = Construction(opts, instance)
          /\ IF instance.ok
             THEN /\ NewInstance(instance)
                  /\ FetchBeginOn(in, ini, instance.redirect.maximum, instance.timeout)
             ELSE /\ fpc' = "failed"
                  /\ error' = "RangeError"
                  /\ UNCHANGED <<statusCodesRetryable, paginate, redirect, retry,
                                 timeout>>
                  /\ UNCHANGED <<timeoutSignal, input, init, requestRedirectControl,
                                 requestSignal, requestFetchInput, redirects,
                                 retries, response, request, delay, result, calls,
                                 received, run, waits>>
    /\ UNCHANGED pageVars

\* exFetchPaginate(in, ini, opts): new ExFetch(opts).fetchPaginate(in, ini)
CallExFetchPaginate(in, ini, signalState, opts) ==
    /\ UNCHANGED <<libraryVars, events>>
    /\ caller = "none"
    /\ caller' = "exFetchPaginate"
    /\ callerSignal' = signalState
    /\ \E instance \in {ExFetchConstructor(opts)} :
          /\ construction' = Construction(opts, instance)
          /\ IF instance.ok
             THEN /\ NewInstance(instance)
                  /\ fetchPaginateBegin(in, ini, NoPaginateInput, instance.paginate,
                                        instance.redirect.maximum, instance.timeout)
             ELSE /\ ppc' = "failed"
                  /\ pageError' = PageError("RangeError", "")
                  /\ UNCHANGED <<statusCodesRetryable, paginate, redirect, retry,
                                 timeout>>
                  /\ UNCHANGED <<timeoutSignal, fetchVars>>
                  /\ UNCHANGED <<optionsOverride, options, page, uri, uriLookUp,
                                 responses, pageDelay, pageWaits, pageCalls>>


(***************************************************************************)
(* The inputs of the model.                                                *)
(***************************************************************************)
DelayNumber(n) == [kind |-> "number", value |-> n]

DelayObject(minimum, maximum) ==
    [kind |-> "object", minimum |-> minimum, maximum |-> maximum]

\* constructor options of the instances that fetch is called on
FetchOptions ==
    [httpStatusCodesRetryable : {<<>>, <<{301, 304, 503}>>},
     paginate : {NoPaginateInput},
     redirectDelay : {<<>>, <<DelayNumber(1)>>},
     redirectMaximum : {<<>>} \cup {<<n>> : n \in 0 .. MaxRedirectMaximum},
     redirectOnEvent : {<<>>},
     retryDelay : {<<DelayObject(<<1>>, <<3>>)>>},
     retryMaximum : {<<n>> : n \in 0 .. MaxRetryMaximum},
     retryOnEvent : {<<>>},
     timeout : {<<>>, <<5000>>}]

FetchInputs == {"https://h/a/x", "file:///d"}

FetchInits == [redirect : {<<>>, <<"follow">>, <<"manual">>}, signal : {<<>>, <<"caller">>}]

\* the status codes the caller adds to or deletes from the retryable set
StatusCodeValues == {200, 503}

\* what the transport answers to a request for url
TransportResponses(url) ==
    IF URLProtocol(url) = "file:"
    THEN {Response(200, <<>>, <<>>, <<>>)}
    ELSE {Response(status, <<>>, <<>>, <<>>) : status \in {200, 304, 404}}
         \cup {Response(503, <<>>, retryAfter, <<>>) :
                  retryAfter \in {<<>>, <<"1">>, <<"soon">>}}
         \cup {Response(301, location, <<>>, <<>>) :
                  location \in {<<>>, <<"/n">>, <<"b">>, <<"//">>}}

PageIdle ==
    /\ ppc = "idle"
    /\ optionsOverride = NoPaginateInput
    /\ options = PaginateDefault
    /\ page = 0
    /\ uri = <<>>
    /\ uriLookUp = ""
    /\ responses = <<>>
    /\ pageDelay = NoDelay
    /\ pageError = NoPageError
    /\ pageWaits = 0
    /\ pageCalls = 0

InitInstance(optionSet) ==
    \E opts \in optionSet :
        LET instance == ExFetchConstructor(opts)
        IN  /\ instance.ok
            /\ statusCodesRetryable = instance.httpStatusCodesRetryable
            /\ paginate = instance.paginate
            /\ redirect = instance.redirect
            /\ retry = instance.retry
            /\ timeout = instance.timeout
            /\ construction = [options |-> opts, outcome |-> "ok"]

InitIdle ==
    /\ caller = "none"
    /\ callerSignal = "none"
    /\ timeoutSignal = "none"
    /\ fpc = "idle"
    /\ input = ""
    /\ init = NoInit
    /\ requestRedirectControl = FALSE
    /\ requestSignal = "none"
    /\ requestFetchInput = ""
    /\ redirects = 0
    /\ retries = 0
    /\ response = NoResponse
    /\ request = NoRequest
    /\ delay = NoDelay
    /\ result = NoResponse
    /\ error = "none"
    /\ calls = 0
    /\ received = 0
    /\ run = 0
    /\ waits = NoWaits
    /\ PageIdle
    /\ events = <<>>

\* no delay resolver was called
NoTimeCall == [function |-> "none", arguments |-> <<>>, outcome |-> "none", value |-> 0]

TimeIdle == timeCall = NoTimeCall

\* no ExFetch v0.1.0 was constructed
LegacyIdle ==
    /\ legacyConstruction = [options |-> <<>>, outcome |-> "none"]
    /\ legacyInstance = [httpStatusCodesRetryable |-> {}, paginate |-> LegacyPaginateDefault,
                         retry |-> LegacyRetryDefault, timeout |-> Infinity]
    /\ legacyPc = "idle"
    /\ legacyAttempt = 0
    /\ legacyResponse = NoResponse
    /\ legacyIntervalTime = <<>>
    /\ legacyError = "none"

\* [method, arguments, outcome, entries, text, has]: what a call returned is
\* in entries, text or has, by its method
LinkCall(method, arguments, outcome, entries, text, has) ==
    [method |-> method, arguments |-> arguments, outcome |-> outcome,
     entries |-> entries, text |-> text, has |-> has]

NoLinkCall == LinkCall("none", <<>>, "none", <<>>, "", FALSE)

\* an empty HTTPHeaderLink on which nothing was called
LinkIdle ==
    /\ linkEntries = <<>>
    /\ linkCall = NoLinkCall
    /\ linkHistory = <<>>

\* setDelay was not called on its own
WaitIdle == waiting = NoWaiting

LibraryIdle == TimeIdle /\ LegacyIdle /\ LinkIdle /\ WaitIdle


(***************************************************************************)
(* Spec: one ExFetch instance, and a caller that calls fetch on it, one    *)
(* call at a time, and edits the retryable set at any time.                *)
(***************************************************************************)
Init == InitInstance(FetchOptions) /\ InitIdle /\ LibraryIdle

Next ==
    \/ \E in \in FetchInputs, ini \in FetchInits :
          \E signalState \in SignalStates(ini) : CallFetch(in, ini, signalState)
    \/ \E r \in TransportResponses(request.url) : FetchRespond(r)
    \/ TransportFail
    \/ DelayDone
    \/ DelayReject
    \/ AbortCaller
    \/ TimeoutFire
    \/ \E value \in StatusCodeValues : addHTTPStatusCodeRetryable(value)
    \/ \E value \in StatusCodeValues : deleteHTTPStatusCodeRetryable(value)
    \/ FetchSettled

Spec == Init /\ [][Next]_vars

(***************************************************************************)
(* Properties of ExFetch.fetch, checked under Spec.                        *)
(***************************************************************************)
\* the step in which the transport call resolves with response'
Responded == fpc = "transport" /\ received' = received + 1

\* the response of this step is one the redirect branch takes
Intercepted ==
    requestRedirectControl /\ response'.status \in httpStatusCodesRedirectable

\* every response so far, the one of this step included, was not successful,
\* had its status in the retryable set and no Retry-After header, and they
\* are at most retry.maximum
RetryRunGoesOn == Responded /\ run' = received' /\ received' <= retry.maximum

\* the call returned a successful response that came after n = run responses
\* that asked for a retry, n <= retry.maximum
RetryRunEnded ==
    /\ fpc = "done"
    /\ received = run + 1
    /\ run <= retry.maximum
    /\ ResponseOk(response)

C2_AttemptsAtMostMaximum ==
    waits.redirect = 0 =>
        calls <= (IF retry.maximum > 1 THEN retry.maximum ELSE 1)

\* C3: with redirects intercepted and redirect.maximum = m, at most m
\* redirects are followed; each one makes exactly one redirect wait and then
\* one transport call to the absolute URL new URL(Location, input); a
\* redirectable response received when the counter is m is returned as it is,
\* with no wait and no retry, whatever the retryable set holds
C3_RedirectsBounded ==
    /\ [](waits.redirect <= redirect.maximum /\ redirects <= redirect.maximum)
    /\ [](calls <= 1 + waits.redirect + waits.retry)
    /\ [][(Responded /\ fpc' = "delay" /\ delay'.kind = "redirect") =>
             /\ Intercepted
             /\ waits' = [waits EXCEPT !.redirect = @ + 1]
             /\ redirects' = redirects + 1
             /\ retries' = retries
             /\ calls' = calls
             /\ response'.location # <<>>
             /\ URLResolve(response'.location[1], input) = <<requestFetchInput'>>
             /\ URLProtocol(requestFetchInput') = "https:"]_vars
    /\ [][(fpc = "delay" /\ delay.kind = "redirect"
           /\ fpc' \notin {"delay", "failed"}) =>
             /\ fpc' = "transport"
             /\ calls' = calls + 1
             /\ waits' = waits
             /\ request'.url = requestFetchInput]_vars
    /\ [][(Responded /\ Intercepted /\ redirects >= redirect.maximum) =>
             /\ fpc' = "done"
             /\ result' = response'
             /\ waits' = waits
             /\ retries' = retries
             /\ redirects' = redirects
             /\ calls' = calls]_vars

\* C3, reached: one redirect followed to the resolved URL, then a second 301,
\* in the retryable set and with retries left, returned
C3_Witness ==
    /\ fpc = "done"
    /\ requestRedirectControl
    /\ redirect.maximum = 1
    /\ redirects = 1
    /\ waits = [redirect |-> 1, retry |-> 0]
    /\ calls = 2
    /\ request.url = "https://h/n"
    /\ result.status = 301
    /\ result.location # <<>>
    /\ 301 \in statusCodesRetryable
    /\ retries < retry.maximum

\* C4: a response with status 304 is returned at once, with no wait, no
\* redirect, no retry and no further transport call
C4_NotModifiedEnds ==
    [][(Responded /\ response'.status = 304) =>
          /\ fpc' = "done"
          /\ result' = response'
          /\ waits' = waits
          /\ retries' = retries
          /\ redirects' = redirects
          /\ calls' = calls
          /\ delay' = NoDelay]_vars

\* C4, reached: a 304 returned after a retry and a redirect, with 304 in the
\* retryable set, retries left and redirects intercepted
C4_Witness ==
    /\ fpc = "done"
    /\ result.status = 304
    /\ 304 \in statusCodesRetryable
    /\ requestRedirectControl
    /\ retries = 1
    /\ retries < retry.maximum
    /\ redirects = 1

\* C5: a response that the redirect branch does not take and that is
\* successful, or whose status is not in the retryable set when it arrives,
\* is returned: no retry, no wait, no error
C5_ReturnedWithoutRetry ==
    [][(Responded /\ ~Intercepted
        /\ (ResponseOk(response') \/ response'.status \notin statusCodesRetryable)) =>
          /\ fpc' = "done"
          /\ result' = response'
          /\ error' = "none"
          /\ waits' = waits
          /\ retries' = retries
          /\ calls' = calls]_vars

\* C5, reached: a 200 returned although 200 was added to the retryable set
\* and retries are left
C5_Witness ==
    /\ fpc = "done"
    /\ result.status = 200
    /\ 200 \in statusCodesRetryable
    /\ retries = 1
    /\ retries < retry.maximum
    /\ error = "none"

\* the response of this step starts a retry: the retry counter goes up
RetryBegins == Responded /\ retries' = retries + 1

\* the response of this step reaches the retry decision of lines 315-317
\* and does not end the loop there
RetryDue ==
    /\ Responded
    /\ ~FetchBypass(input)
    /\ response'.status # 304
    /\ ~Intercepted
    /\ ~ResponseOk(response')
    /\ retries < retry.maximum
    /\ response'.status \in statusCodesRetryable

\* C11: on every retry the wait that starts takes the remaining time of the
\* Retry-After resolver when the resolver can be built from the response,
\* and otherwise (header absent or unparsable) a time resolved from the
\* retry delay; a response that is due a retry starts that wait whatever its
\* Retry-After header is, and fetch does not fail
C11_RetryWait ==
    [][/\ RetryBegins =>
            /\ fpc' = "delay"
            /\ delay'.kind = "retry"
            /\ waits'.retry = waits.retry + 1
            /\ error' = "none"
            /\ IF RetryAfterRemainTimeMilliseconds(response') # <<>>
               THEN delay'.value = RetryAfterRemainTimeMilliseconds(response')[1]
               ELSE delay'.value \in resolveDelayTime(retry.delay)
       /\ RetryDue => RetryBegins]_vars

\* a retry wait started on a response whose Retry-After header is not
\* parsable: it takes a time of the retry delay
C11_Witness ==
    /\ fpc = "delay"
    /\ delay.kind = "retry"
    /\ response.retryAfter = <<"soon">>
    /\ delay.value \in resolveDelayTime(retry.delay)
    /\ error = "none"


\* the transport call in flight rejects in this step: fetch leaves the call
\* without a response
TransportFailed == fpc = "transport" /\ received' = received /\ fpc' # "transport"

\* C12: when a transport call fails (network error or abort), on whatever
\* attempt, fetch fails with that error, and from then on it makes no
\* transport call and no wait until the caller takes the error
C12_TransportFailureEnds ==
    [][/\ TransportFailed =>
            /\ fpc' = "failed"
            /\ error' = IF SignalAborted(request.signal) THEN "abort" ELSE "network"
            /\ calls' = calls
            /\ waits' = waits
            /\ delay' = delay
       /\ fpc = "failed" =>
            /\ fpc' \in {"failed", "idle"}
            /\ fpc' = "failed" =>
                  error' = error /\ calls' = calls /\ waits' = waits]_vars

\* the second transport call of a fetch, made after a retry wait, failed
\* with a network error though a retry was still allowed
C12_Witness ==
    /\ fpc = "failed"
    /\ error = "network"
    /\ calls = 2
    /\ waits.retry = 1
    /\ retries < retry.maximum
    /\ response.status \in statusCodesRetryable


\* a fetch call is running or has ended and was not yet taken by its caller
InFetch == fpc # "idle"

\* C13, as the claim states it: in every fetch call a timeout signal is
\* derived if and only if the caller supplied no signal and the configured
\* timeout is finite
C13_AsStated ==
    InFetch => (timeoutSignal # "none" <=> init.signal = <<>> /\ timeout # Infinity)

\* C13: in a fetch call that is not for a file: URL a timeout signal is
\* derived if and only if the caller supplied no signal and the timeout is
\* finite; a call for a file: URL derives none.  The signal is made in the
\* step that starts the call and never again, and the one signal in force
\* (the caller's, or the derived one) is the signal of every transport call
\* and of every redirect or retry wait of the call
C13_OneSignal ==
    /\ [](InFetch =>
            /\ ~FetchBypass(input) =>
                  /\ timeoutSignal # "none" <=> init.signal = <<>> /\ timeout # Infinity
                  /\ requestSignal = "timeout" <=> timeoutSignal # "none"
                  /\ requestSignal = "caller" <=> init.signal # <<>>
            /\ FetchBypass(input) => timeoutSignal = "none"
            /\ request.signal = requestSignal
            /\ fpc = "delay" => delay.signal = requestSignal)
    /\ [][InFetch =>
            /\ timeoutSignal' = "live" => timeoutSignal = "live"
            /\ fpc' # "idle" =>
                  /\ requestSignal' = requestSignal
                  /\ request'.signal = request.signal]_vars

\* the second transport call of a fetch, made after a retry wait, under the
\* timeout signal that was derived before the first call
C13_Witness ==
    /\ fpc = "transport"
    /\ calls = 2
    /\ waits.retry = 1
    /\ init.signal = <<>>
    /\ timeout # Infinity
    /\ requestSignal = "timeout"
    /\ request.signal = "timeout"
    /\ timeoutSignal = "live"


\* the signal that governs the running fetch is cancelled in this step
SignalCancelled ==
    \/ requestSignal = "caller" /\ callerSignal = "live" /\ callerSignal' = "aborted"
    \/ requestSignal = "timeout" /\ timeoutSignal = "live" /\ timeoutSignal' = "aborted"

\* fetch is suspended in a redirect or retry wait whose timer is running
InWait == fpc = "delay" /\ delay.state = "pending"

C16_InterceptsOnlyOnFollowAndMaximum ==
    /\ [](InFetch =>
            /\ requestRedirectControl <=>
                  /\ init.redirect = <<"follow">>
                  /\ redirect.maximum # Infinity
                  /\ ~FetchBypass(input)
            /\ request.redirect =
                  IF requestRedirectControl THEN <<"manual">> ELSE init.redirect
            /\ ~requestRedirectControl =>
                  /\ waits.redirect = 0
                  /\ redirects = 0
                  /\ delay.kind # "redirect"
                  /\ requestFetchInput = input)
    /\ [][/\ Responded
          /\ ~requestRedirectControl
          /\ response'.status \in httpStatusCodesRedirectable
          => IF RetryDue
             THEN fpc' = "delay" /\ delay'.kind = "retry" /\ retries' = retries + 1
             ELSE fpc' = "done" /\ result' = response' /\ calls' = calls]_vars

\* a 301 with a Location answered to a request with redirect "follow" on an
\* instance with no redirect.maximum configured: the transport was given
\* "follow", and the 301, its status in the retryable set, started a retry
\* wait
C16_Witness ==
    /\ fpc = "delay"
    /\ delay.kind = "retry"
    /\ response.status = 301
    /\ response.location # <<>>
    /\ init.redirect = <<"follow">>
    /\ redirect.maximum = Infinity
    /\ request.redirect = <<"follow">>
    /\ waits.redirect = 0


\* the response of this step is a redirect fetch handles itself and cannot
\* follow: it has no Location header, or one that gives no valid URL
RedirectLost ==
    /\ Responded
    /\ Intercepted
    /\ \/ response'.location = <<>>
       \/ /\ response'.location # <<>>
          /\ URLResolve(response'.location[1], input) = <<>>

\* C17: when fetch handles redirects itself and a redirect response has no
\* Location header, or a Location that does not parse to a valid URL, fetch
\* returns that response as it is: the step makes no redirect wait, no
\* retry and no transport call, and none follows
C17_LostRedirectReturned ==
    [][/\ RedirectLost =>
            /\ fpc' = "done"
            /\ result' = response'
            /\ waits' = waits
            /\ retries' = retries
            /\ calls' = calls
            /\ delay' = delay
            /\ error' = "none"
       /\ fpc = "done" =>
            \/ fpc' = "idle"
            \/ fpc' = "done" /\ result' = result /\ calls' = calls /\ waits' = waits]_vars

\* a 301 whose Location ("//") gives no valid URL, returned by a fetch that
\* handles redirects itself, could still follow one, and could have retried
\* the status
C17_Witness ==
    /\ fpc = "done"
    /\ requestRedirectControl
    /\ result.status = 301
    /\ result.location = <<"//">>
    /\ redirect.maximum > 0
    /\ 301 \in statusCodesRetryable
    /\ retries < retry.maximum
    /\ calls = 1
    /\ waits = NoWaits


(***************************************************************************)
(* SpecPaginate: one ExFetch instance, and a caller that calls             *)
(* fetchPaginate on it, one call at a time.  The server has at most        *)
(* MaxServerPages pages: its last page carries no Link header.             *)
(***************************************************************************)
\* the pages of the server
MaxServerPages == 3

PaginateInputs ==
    [delay : {<<>>, <<DelayNumber(1)>>},
     linkUpNextPage : {<<>>, <<"linkUpNextPagePrev">>},
     maximum : {<<>>} \cup {<<n>> : n \in 1 .. MaxPaginateMaximum},
     onEvent : {<<>>},
     throwOnInvalidHeaderLink : {<<>>, <<FALSE>>}]

\* constructor options of the instances that fetchPaginate is called on
PaginateOptions ==
    [httpStatusCodesRetryable : {<<>>},
     paginate : PaginateInputs,
     redirectDelay : {<<>>},
     redirectMaximum : {<<>>},
     redirectOnEvent : {<<>>},
     retryDelay : {<<DelayNumber(1)>>},
     retryMaximum : {<<1>>},
     retryOnEvent : {<<>>},
     timeout : {<<>>, <<5000>>}]

\* the optionsOverride arguments of the calls
PaginateOverrides ==
    {NoPaginateInput,
     [NoPaginateInput EXCEPT !.maximum = <<1>>, !.throwOnInvalidHeaderLink = <<TRUE>>]}

PaginateInits == [redirect : {<<>>}, signal : {<<>>, <<"caller">>}]

\* the Link headers of the server's pages
PageLinks ==
    {<<>>,
     <<"<https://h/a/y>; rel=\"next\"">>,
     <<"</p>; rel=\"prev\", <q>; rel=\"next\", <r>; rel=\"next\"">>,
     <<"<q>; rel=next; title=\"t\"">>,
     <<"<//>; rel=\"next\"">>,
     <<"q; rel=\"next\"">>}

\* what the transport answers to the request for page number n
PageResponses(n) ==
    {Response(200, <<>>, <<>>, link) :
        link \in IF n < MaxServerPages THEN PageLinks ELSE {<<>>}}
    \cup {Response(404, <<>>, <<>>, <<"<https://h/a/y>; rel=\"next\"">>),
          Response(404, <<>>, <<>>, <<"q; rel=\"next\"">>),
          Response(503, <<>>, <<>>, <<>>)}

InitPaginate == InitInstance(PaginateOptions) /\ InitIdle /\ LibraryIdle

NextPaginate ==
    \/ \E ini \in PaginateInits, override \in PaginateOverrides :
          \E signalState \in SignalStates(ini) :
             CallFetchPaginate("https://h/a/x", ini, signalState, override)
    \/ \E r \in PageResponses(pageCalls) : FetchRespond(r)
    \/ TransportFail
    \/ DelayDone
    \/ DelayReject
    \/ AbortCaller
    \/ TimeoutFire
    \/ PageFetched
    \/ PageFetchFailed
    \/ PageDelayDone
    \/ PageDelayReject
    \/ PaginateSettled

SpecPaginate == InitPaginate /\ [][NextPaginate]_vars

(***************************************************************************)
(* Properties of ExFetch.fetchPaginate, checked under SpecPaginate.        *)
(***************************************************************************)
\* the step in which this.fetch has returned the page's response (result)
\* and fetchPaginate goes on from line 370
PageStep == ppc = "fetch" /\ fpc = "done" /\ ppc' # "fetch"

\* the entries of the page's Link header whose rel is next, in header order
EntriesNext(r) ==
    LET entries == HTTPHeaderLinkParse(r).entries
    IN  SelectSeq(entries,
                  LAMBDA e : getParameter(e.parameters, "rel") = <<"next">>)

\* every response of the sequence is successful and its Link header holds
\* an entry whose rel is next
AllPagesNext(pages) ==
    \A i \in 1 .. Len(pages) :
        /\ ResponseOk(pages[i])
        /\ HTTPHeaderLinkParse(pages[i]).ok
        /\ EntriesNext(pages[i]) # <<>>

\* the page's response is successful and its Link header does not parse
MalformedLinkPage ==
    PageStep /\ ResponseOk(result) /\ ~HTTPHeaderLinkParse(result).ok

C7_MalformedLinkStops ==
    /\ [][(MalformedLinkPage /\ ~options.throwOnInvalidHeaderLink) =>
             /\ ppc' = "done"
             /\ pageError' = NoPageError
             /\ responses' = Append(responses, result)
             /\ uri' = <<>>
             /\ pageCalls' = pageCalls
             /\ pageWaits' = pageWaits]_vars
    /\ [][ppc = "done" => (pageCalls' = pageCalls \/ ppc' = "idle")]_vars

\* C7, reached: page 2 has a malformed Link header and the call returns the
\* two responses
C7_Witness ==
    /\ ppc = "done"
    /\ ~options.throwOnInvalidHeaderLink
    /\ pageError = NoPageError
    /\ Len(responses) = 2
    /\ pageCalls = 2
    /\ options.maximum > 2
    /\ ResponseOk(responses[2])
    /\ responses[2].link # <<>>
    /\ ~HTTPHeaderLinkParse(responses[2]).ok

\* C8: with throwOnInvalidHeaderLink = true, which is the default, a
\* successful page whose Link header does not parse makes the call throw a
\* SyntaxError whose message names the page's URL: nothing is returned, no
\* wait and no further call of this.fetch
C8_MalformedLinkThrows ==
    /\ [][(MalformedLinkPage /\ options.throwOnInvalidHeaderLink) =>
             /\ ppc' = "failed"
             /\ pageError' = PageError("SyntaxError", uriLookUp)
             /\ uriLookUp = request.url
             /\ pageCalls' = pageCalls
             /\ pageWaits' = pageWaits]_vars
    /\ [][ppc = "failed" => (pageCalls' = pageCalls \/ ppc' = "idle")]_vars
    /\ [](PaginateDefault.throwOnInvalidHeaderLink)

\* C8, reached: page 2, at https://h/a/y, has a malformed Link header
C8_Witness ==
    /\ ppc = "failed"
    /\ options.throwOnInvalidHeaderLink
    /\ pageError = PageError("SyntaxError", "https://h/a/y")
    /\ Len(responses) = 2
    /\ pageCalls = 2
    /\ options.maximum > 2

\* the next URL as C9 gives it: <<>> when there is none
NextPageURL ==
    IF options.linkUpNextPage # "default"
    THEN linkUpNextPagePrev(HTTPHeaderLinkParse(result).entries, uriLookUp).uri
    ELSE IF EntriesNext(result) = <<>>
    THEN <<>>
    ELSE URLResolve(EntriesNext(result)[1].uri, uriLookUp)

C10_ResponsesAppended ==
    /\ [][PageStep => responses' = Append(responses, result)]_vars
    /\ [][(PageStep /\ ~ResponseOk(result)) =>
             /\ ppc' = "done"
             /\ uri' = <<>>
             /\ pageError' = NoPageError
             /\ pageCalls' = pageCalls
             /\ pageWaits' = pageWaits]_vars
    /\ [](ppc = "done" =>
             /\ Len(responses) >= 1
             /\ \A i \in 1 .. Len(responses) - 1 : ResponseOk(responses[i]))

\* C10, reached: page 2 answers 404 with a Link header that names a next
\* page; the two responses are returned
C10_Witness ==
    /\ ppc = "done"
    /\ Len(responses) = 2
    /\ pageCalls = 2
    /\ options.maximum > 2
    /\ ResponseOk(responses[1])
    /\ responses[2].status = 404
    /\ EntriesNext(responses[2]) # <<>>

\* fetchPaginate is suspended in the wait between two pages
InPageWait == ppc = "delay"

MaxOptionPages == 2

\* the numbers given as policy values: negative, zero, positive, unbounded
OptionNumbers == {-1, 0, 1, 2, Infinity}

\* the bounds given in a delay range: absent, or a number
OptionBounds == {<<>>, <<-1>>, <<0>>, <<2>>}

\* the delays given: the numeric shorthand, and ranges whole and partial
DelayInputs ==
    {DelayNumber(n) : n \in {-1, 0, 2, Infinity}}
    \cup {DelayObject(minimum, maximum) : minimum \in OptionBounds, maximum \in OptionBounds}
    \cup {DelayObject(<<0>>, <<Infinity>>)}

\* partial ranges next to the bounds of the default retry delay
RetryDelayInputs ==
    DelayInputs \cup {DelayObject(<<59999>>, <<>>), DelayObject(<<70000>>, <<>>)}

\* the paginate inputs given, to the constructor and as override
PaginateCases ==
    {NoPaginateInput}
    \cup {[NoPaginateInput EXCEPT !.delay = <<d>>] : d \in DelayInputs}
    \cup {[NoPaginateInput EXCEPT !.maximum = <<n>>] : n \in OptionNumbers}
    \cup {[NoPaginateInput EXCEPT !.onEvent = <<"observe">>]}

BaseOptions ==
    [httpStatusCodesRetryable |-> <<{}>>, paginate |-> NoPaginateInput,
     redirectDelay |-> <<>>, redirectMaximum |-> <<1>>, redirectOnEvent |-> <<>>,
     retryDelay |-> <<>>, retryMaximum |-> <<>>, retryOnEvent |-> <<>>,
     timeout |-> <<>>]

\* the constructor options given: BaseOptions with one policy value set
OptionCases ==
    {[BaseOptions EXCEPT !.paginate = p] : p \in PaginateCases}
    \cup {[BaseOptions EXCEPT !.redirectDelay = <<d>>] : d \in DelayInputs}
    \cup {[BaseOptions EXCEPT !.redirectMaximum = m] :
             m \in {<<>>} \cup {<<n>> : n \in OptionNumbers}}
    \cup {[BaseOptions EXCEPT !.retryDelay = <<d>>] : d \in RetryDelayInputs}
    \cup {[BaseOptions EXCEPT !.retryMaximum = <<n>>] : n \in OptionNumbers}
    \cup {[BaseOptions EXCEPT !.timeout = <<n>>] : n \in OptionNumbers}

OptionInits == [redirect : {<<"follow">>}, signal : {<<>>, <<"caller">>}]

\* what the transport answers to the request number n of a call
OptionResponses(n) ==
    {Response(200, <<>>, <<>>, link) :
        link \in IF n < MaxOptionPages
                 THEN {<<>>, <<"<https://h/a/y>; rel=\"next\"">>} ELSE {<<>>}}
    \cup {Response(301, <<"/n">>, <<>>, <<>>)}

\* the caller calls the methods of the instance its last new ExFetch made
Constructed == construction.outcome = "ok"

InitOptions == InitInstance({BaseOptions}) /\ InitIdle /\ LibraryIdle

NextOptions ==
    \/ \E opts \in OptionCases : Construct(opts)
    \/ \E ini \in OptionInits, opts \in OptionCases :
          \E signalState \in SignalStates(ini) :
             CallExFetch("https://h/a/x", ini, signalState, opts)
    \/ \E ini \in OptionInits, opts \in OptionCases :
          \E signalState \in SignalStates(ini) :
             CallExFetchPaginate("https://h/a/x", ini, signalState, opts)
    \/ /\ Constructed
       /\ \E ini \in OptionInits :
             \E signalState \in SignalStates(ini) :
                CallFetch("https://h/a/x", ini, signalState)
    \/ /\ Constructed
       /\ \E ini \in OptionInits, override \in PaginateCases :
             \E signalState \in SignalStates(ini) :
                CallFetchPaginate("https://h/a/x", ini, signalState, override)
    \/ \E r \in OptionResponses(pageCalls) : FetchRespond(r)
    \/ TransportFail
    \/ DelayDone
    \/ DelayReject
    \/ AbortCaller
    \/ TimeoutFire
    \/ PageFetched
    \/ PageFetchFailed
    \/ PageDelayDone
    \/ PageDelayReject
    \/ FetchSettled
    \/ PaginateSettled

SpecOptions == InitOptions /\ [][NextOptions]_vars

(***************************************************************************)
(* Claims about the options, checked under SpecOptions.                    *)
(***************************************************************************)
\* a count in range: a non-negative safe integer
CountInRange(n) == n \in 0 .. (Infinity - 1)

\* a delay input with a bound out of range
DelayOutOfRange(d) ==
    IF d.kind = "number"
    THEN ~CountInRange(d.value)
    ELSE \/ d.minimum # <<>> /\ ~CountInRange(d.minimum[1])
         \/ d.maximum # <<>> /\ ~CountInRange(d.maximum[1])

\* a paginate input with a delay bound or a maximum out of range (the
\* maximum is a positive integer or unbounded)
PaginateOutOfRange(p) ==
    \/ p.delay # <<>> /\ DelayOutOfRange(p.delay[1])
    \/ p.maximum # <<>> /\ p.maximum[1] # Infinity /\ ~CountInRange(p.maximum[1] - 1)

\* constructor options with a policy value out of range: a delay bound,
\* retry.maximum (a non-negative integer), redirect.maximum (a non-negative
\* integer or unbounded), paginate.maximum, timeout (a positive integer or
\* unbounded)
OptionsOutOfRange(o) ==
    \/ PaginateOutOfRange(o.paginate)
    \/ o.redirectDelay # <<>> /\ DelayOutOfRange(o.redirectDelay[1])
    \/ o.retryDelay # <<>> /\ DelayOutOfRange(o.retryDelay[1])
    \/ o.retryMaximum # <<>> /\ ~CountInRange(o.retryMaximum[1])
    \/ /\ o.redirectMaximum # <<>>
       /\ o.redirectMaximum[1] # Infinity
       /\ ~CountInRange(o.redirectMaximum[1])
    \/ o.timeout # <<>> /\ o.timeout[1] # Infinity /\ ~CountInRange(o.timeout[1] - 1)

\* C18: a policy value out of range given to the constructor makes the
\* construction fail with a RangeError; given to exFetch or exFetchPaginate
\* it makes the call fail with a RangeError with no transport call made; and
\* given as the override of fetchPaginate it makes that call fail with a
\* RangeError with no page fetched and no transport call made
C18_OutOfRangeFails ==
    /\ OptionsOutOfRange(construction.options) => construction.outcome = "RangeError"
    /\ caller = "exFetch" /\ OptionsOutOfRange(construction.options) =>
          fpc = "failed" /\ error = "RangeError" /\ calls = 0
    /\ caller = "exFetchPaginate" /\ OptionsOutOfRange(construction.options) =>
          /\ ppc = "failed"
          /\ pageError = PageError("RangeError", "")
          /\ pageCalls = 0
          /\ fpc = "idle"
          /\ calls = 0
    /\ caller = "fetchPaginate" /\ PaginateOutOfRange(optionsOverride) =>
          /\ ppc = "failed"
          /\ pageError = PageError("RangeError", "")
          /\ pageCalls = 0
          /\ fpc = "idle"
          /\ calls = 0

\* a fetchPaginate call with the override { maximum: 0 }, failed with a
\* RangeError before any page was fetched
C18_Witness ==
    /\ caller = "fetchPaginate"
    /\ optionsOverride.maximum = <<0>>
    /\ ppc = "failed"
    /\ pageError = PageError("RangeError", "")
    /\ pageCalls = 0
    /\ calls = 0

\* a delay range with non-negative safe-integer bounds, minimum <= maximum
DelayRangeOk(d) ==
    CountInRange(d.minimum) /\ CountInRange(d.maximum) /\ d.minimum <= d.maximum

\* the range a delay input stands for: both bounds the number of the
\* numeric shorthand, or the given bounds with the missing ones taken from
\* the previous range
DelayMerged(d, previous) ==
    IF d.kind = "number" THEN DelayOptions(d.value, d.value)
    ELSE DelayOptions(IF d.minimum # <<>> THEN d.minimum[1] ELSE previous.minimum,
                      IF d.maximum # <<>> THEN d.maximum[1] ELSE previous.maximum)

\* the range held after given was applied to previous (given: <<>> or <<d>>)
DelayHeld(given, previous) ==
    IF given = <<>> THEN previous ELSE DelayMerged(given[1], previous)

\* a delay that is given and whose merged minimum exceeds its merged maximum
DelayCrossed(given, previous) ==
    /\ given # <<>>
    /\ ~DelayOutOfRange(given[1])
    /\ DelayMerged(given[1], previous).minimum > DelayMerged(given[1], previous).maximum

\* C19: every delay range the orchestrator holds (retry, redirect,
\* paginate, and the paginate range of a running fetchPaginate call) has
\* non-negative safe-integer bounds with minimum <= maximum; after a
\* successful construction each range is the given one merged with the
\* default range (both bounds the number, for the numeric shorthand), and a
\* range whose merged minimum exceeds its merged maximum makes the
\* construction fail; the same holds for the delay of a fetchPaginate
\* override, merged with the paginate range of the instance
C19_DelayRanges ==
    /\ DelayRangeOk(retry.delay)
    /\ DelayRangeOk(redirect.delay)
    /\ DelayRangeOk(paginate.delay)
    /\ DelayRangeOk(options.delay)
    /\ construction.outcome = "ok" =>
          /\ retry.delay = DelayHeld(construction.options.retryDelay, RetryDefault.delay)
          /\ redirect.delay =
                DelayHeld(construction.options.redirectDelay, RedirectDefault.delay)
          /\ paginate.delay =
                DelayHeld(construction.options.paginate.delay, PaginateDefault.delay)
    /\ \/ DelayCrossed(construction.options.retryDelay, RetryDefault.delay)
       \/ DelayCrossed(construction.options.redirectDelay, RedirectDefault.delay)
       \/ DelayCrossed(construction.options.paginate.delay, PaginateDefault.delay)
       => construction.outcome = "RangeError"
    /\ caller = "fetchPaginate" /\ ~PaginateOutOfRange(optionsOverride) =>
          IF DelayCrossed(optionsOverride.delay, paginate.delay)
          THEN ppc = "failed" /\ pageError = PageError("RangeError", "") /\ pageCalls = 0
          ELSE options.delay = DelayHeld(optionsOverride.delay, paginate.delay)

\* an instance constructed with retry.delay { minimum: 59999 }: the range is
\* merged with the default maximum 60000
C19_Witness ==
    /\ construction.outcome = "ok"
    /\ construction.options.retryDelay = <<DelayObject(<<59999>>, <<>>)>>
    /\ retry.delay = DelayOptions(59999, 60000)

\* constructor options that set one unbounded maximum, or a redirect.maximum
\* that is a non-negative integer, and nothing else out of the ordinary
UnboundedGiven(o) ==
    \/ o = [BaseOptions EXCEPT !.redirectMaximum = <<Infinity>>]
    \/ o = [BaseOptions EXCEPT !.paginate = [NoPaginateInput EXCEPT !.maximum = <<Infinity>>]]
    \/ o = [BaseOptions EXCEPT !.timeout = <<Infinity>>]
    \/ \E n \in 0 .. 2 : o = [BaseOptions EXCEPT !.redirectMaximum = <<n>>]

\* C20: the construction succeeds when redirect.maximum is given as a
\* non-negative integer or as Infinity, and when paginate.maximum or
\* timeout is given as Infinity
C20_UnboundedAccepted ==
    UnboundedGiven(construction.options) => construction.outcome = "ok"

(***************************************************************************)
(* The delay resolvers as pure functions: resolveDelayTime of v0.2         *)
(* (src/dist/header/retry-after.d.ts lines 103-108) and resolveIntervalTime*)
(* of v0.1 (src/unnamed/part_000 lines 271-280), called on every valid     *)
(* range with bounds up to MaxTimeBound.                                   *)
(***************************************************************************)
MaxTimeBound == 4

MaxAttempts == 4

\* the v0.2 part of the state
exFetchVars == <<instanceVars, caller, signalVars, fetchVars, pageVars, events>>

TimeBounds == 0 .. MaxTimeBound

\* the ranges resolveDelayOptions accepts
DelayRanges ==
    {resolveDelayOptions(d, RedirectDefault.delay).value :
        d \in {d \in {DelayObject(<<minimum>>, <<maximum>>) :
                         minimum \in TimeBounds, maximum \in TimeBounds}
                     \cup {DelayNumber(n) : n \in TimeBounds} :
                  resolveDelayOptions(d, RedirectDefault.delay).ok}}

IntervalInputs ==
    [increment : {<<>>, <<TRUE>>, <<FALSE>>},
     minimum : {<<n>> : n \in TimeBounds}, maximum : {<<n>> : n \in TimeBounds}]

\* the field initialiser of #retry.interval (part_000 lines 299-303)
IntervalDefault == LegacyRetryDefault.interval

\* the ranges resolveIntervalOptions accepts
IntervalRanges ==
    {resolveIntervalOptions(i, IntervalDefault).value :
        i \in {i \in IntervalInputs : resolveIntervalOptions(i, IntervalDefault).ok}}

TimeCalled(function, arguments) ==
    [function |-> function, arguments |-> arguments, outcome |-> "called", value |-> 0]

TimeInit ==
    \/ \E delay0 \in DelayRanges : timeCall = TimeCalled("resolveDelayTime", delay0)
    \/ \E interval \in IntervalRanges, attemptCurrent \in 0 .. MaxAttempts,
          attempts \in 0 .. MaxAttempts :
          timeCall = TimeCalled("resolveIntervalTime",
                                [attemptCurrent |-> attemptCurrent, attempts |-> attempts,
                                 increment |-> interval.increment,
                                 maximum |-> interval.maximum,
                                 minimum |-> interval.minimum])

\* resolveDelayTime(timeCall.arguments) returns
CallResolveDelayTime ==
    /\ timeCall.function = "resolveDelayTime"
    /\ timeCall.outcome = "called"
    /\ \E delayTime \in resolveDelayTime(timeCall.arguments) :
          timeCall' = [timeCall EXCEPT !.outcome = "returned", !.value = delayTime]
    /\ UNCHANGED <<exFetchVars, legacyVars, linkVars, waiting>>

\* resolveIntervalTime(timeCall.arguments) returns or throws
CallResolveIntervalTime ==
    /\ timeCall.function = "resolveIntervalTime"
    /\ timeCall.outcome = "called"
    /\ \E done \in {resolveIntervalTime(timeCall.arguments)} :
          IF done.outcome = "returned"
          THEN \E intervalTime \in done.values :
                  timeCall' = [timeCall EXCEPT !.outcome = "returned",
                                               !.value = intervalTime]
          ELSE timeCall' = [timeCall EXCEPT !.outcome = done.outcome]
    /\ UNCHANGED <<exFetchVars, legacyVars, linkVars, waiting>>

InitDelayTime ==
    InitInstance({BaseOptions}) /\ InitIdle /\ TimeInit /\ LegacyIdle /\ LinkIdle
    /\ WaitIdle

NextDelayTime == CallResolveDelayTime \/ CallResolveIntervalTime

SpecDelayTime == InitDelayTime /\ [][NextDelayTime]_vars

(***************************************************************************)
(* Claims about the delay resolvers, checked under SpecDelayTime.          *)
(***************************************************************************)
\* a call of a delay resolver that does not increment has ended
TimeDonePlain ==
    /\ timeCall.outcome # "called"
    /\ \/ timeCall.function = "resolveDelayTime"
       \/ timeCall.function = "resolveIntervalTime" /\ ~timeCall.arguments.increment

TimeDoneIncrement ==
    /\ timeCall.function = "resolveIntervalTime"
    /\ timeCall.outcome # "called"
    /\ timeCall.arguments.increment
    /\ timeCall.arguments.minimum < timeCall.arguments.maximum
    /\ timeCall.arguments.attemptCurrent < timeCall.arguments.attempts

\* (maximum - minimum) * attemptCurrent, the part of the lower bound that
\* grows with attemptCurrent, before the division by attempts
IncrementNumerator(p, attemptCurrent) == (p.maximum - p.minimum) * attemptCurrent

\* C22: with increment enabled and minimum < maximum, for every valid range
\* and every attemptCurrent < attempts, the delay resolver returns a
\* non-negative integer n with
\* minimum + (maximum - minimum) * attemptCurrent / attempts <= n < maximum,
\* and that lower bound does not decrease as attemptCurrent grows
C22_IncrementInRange ==
    TimeDoneIncrement =>
        /\ timeCall.outcome = "returned"
        /\ timeCall.value \in Nat
        /\ timeCall.arguments.minimum * timeCall.arguments.attempts
              + IncrementNumerator(timeCall.arguments, timeCall.arguments.attemptCurrent)
           <= timeCall.value * timeCall.arguments.attempts
        /\ timeCall.value < timeCall.arguments.maximum
        /\ \A smaller \in 0 .. timeCall.arguments.attemptCurrent :
              IncrementNumerator(timeCall.arguments, smaller)
              <= IncrementNumerator(timeCall.arguments, timeCall.arguments.attemptCurrent)

(***************************************************************************)
(* SpecLegacy: the ExFetch of v0.1.0 (src/unnamed/part_000).  A caller     *)
(* constructs instances and calls fetch without init.signal, one call at a *)
(* time; no timeout is given, so the request and the waits carry no        *)
(* signal (lines 375-378).                                                 *)
(***************************************************************************)
\* an interval given as an object
IntervalObject(increment, minimum, maximum) ==
    [kind |-> "object", increment |-> increment, minimum |-> minimum,
     maximum |-> maximum]

\* the intervals given as retry.interval, retry.delay or retry.pause
LegacyIntervalsGiven ==
    {IntervalObject(<<>>, <<0>>, <<2>>), DelayNumber(5)}

LegacyRetryCases ==
    {LegacyRetryOptions(attempts, <<>>, <<>>, <<>>) : attempts \in {<<>>, <<2>>, <<3>>}}
    \cup {LegacyRetryOptions(<<2>>, <<given>>, <<>>, <<>>) : given \in LegacyIntervalsGiven}
    \cup {LegacyRetryOptions(<<2>>, <<>>, <<DelayNumber(5)>>, <<>>),
          LegacyRetryOptions(<<2>>, <<>>, <<>>, <<DelayNumber(5)>>),
          LegacyRetryOptions(<<-1>>, <<>>, <<>>, <<>>)}

LegacyOptionCases ==
    {[httpStatusCodesRetryable |-> <<>>, retry |-> r, timeout |-> <<>>] :
        r \in LegacyRetryCases}

LegacyResponses ==
    {Response(200, <<>>, <<>>, <<>>), Response(404, <<>>, <<>>, <<>>),
     Response(503, <<>>, <<>>, <<>>), Response(503, <<>>, <<"1">>, <<>>)}

\* new ExFetch(opts)
LegacyConstruct(opts) ==
    /\ legacyPc = "idle"
    /\ \E instance \in {ExFetchLegacyConstructor(opts)} :
          IF instance.ok
          THEN /\ legacyConstruction' = [options |-> opts, outcome |-> "ok"]
               /\ legacyInstance' =
                     [httpStatusCodesRetryable |-> instance.httpStatusCodesRetryable,
                      paginate |-> instance.paginate, retry |-> instance.retry,
                      timeout |-> instance.timeout]
          ELSE /\ legacyConstruction' = [options |-> opts, outcome |-> "RangeError"]
               /\ UNCHANGED legacyInstance
    /\ UNCHANGED <<legacyPc, legacyAttempt, legacyResponse, legacyIntervalTime,
                   legacyError>>
    /\ UNCHANGED <<exFetchVars, timeCall, linkVars, waiting>>

\* lines 370-387: fetch runs to its first transport call
LegacyCallFetch ==
    /\ legacyPc = "idle"
    /\ legacyConstruction.outcome = "ok"
    /\ legacyPc' = "transport"
    /\ legacyAttempt' = 1
    /\ legacyResponse' = NoResponse
    /\ legacyIntervalTime' = <<>>
    /\ legacyError' = "none"
    /\ UNCHANGED <<legacyConstruction, legacyInstance>>
    /\ UNCHANGED <<exFetchVars, timeCall, linkVars, waiting>>

\* lines 388-394: the loop is left with the response
LegacyBreak(r, attempt, instance) ==
    \/ ResponseOk(r)
    \/ attempt >= instance.retry.attempts
    \/ r.status \notin instance.httpStatusCodesRetryable

\* lines 401-405: the fallback wait
LegacyFallback(attempt, instance) ==
    resolveIntervalTime([attemptCurrent |-> attempt,
                         attempts |-> instance.retry.attempts,
                         increment |-> instance.retry.interval.increment,
                         maximum |-> instance.retry.interval.maximum,
                         minimum |-> instance.retry.interval.minimum])

\* lines 387-414: the transport answers r; fetch returns it, or starts the
\* wait before the next attempt, or throws what resolveIntervalTime threw
LegacyRespond(r) ==
    /\ legacyPc = "transport"
    /\ legacyResponse' = r
    /\ IF LegacyBreak(r, legacyAttempt, legacyInstance)
       THEN /\ legacyPc' = "done"
            /\ UNCHANGED <<legacyIntervalTime, legacyError>>
       ELSE IF RetryAfterRemainTimeMilliseconds(r) # <<>>
       THEN /\ legacyPc' = "delay"
            /\ legacyIntervalTime' = RetryAfterRemainTimeMilliseconds(r)
            /\ UNCHANGED legacyError
       ELSE \E fallback \in {LegacyFallback(legacyAttempt, legacyInstance)} :
               IF fallback.outcome = "returned"
               THEN /\ legacyPc' = "delay"
                    /\ \E intervalTime \in fallback.values :
                          legacyIntervalTime' = <<intervalTime>>
                    /\ UNCHANGED legacyError
               ELSE /\ legacyPc' = "failed"
                    /\ legacyError' = fallback.outcome
                    /\ UNCHANGED legacyIntervalTime
    /\ UNCHANGED <<legacyConstruction, legacyInstance, legacyAttempt>>
    /\ UNCHANGED <<exFetchVars, timeCall, linkVars, waiting>>

\* lines 414-416, 386-387: the wait ends and the next attempt starts
LegacyDelayDone ==
    /\ legacyPc = "delay"
    /\ legacyAttempt' = legacyAttempt + 1
    /\ legacyIntervalTime' = <<>>
    /\ legacyPc' = IF legacyAttempt + 1 <= legacyInstance.retry.attempts
                   THEN "transport" ELSE "done"
    /\ UNCHANGED <<legacyConstruction, legacyInstance, legacyResponse, legacyError>>
    /\ UNCHANGED <<exFetchVars, timeCall, linkVars, waiting>>

\* the caller takes what fetch returned or threw
LegacySettled ==
    /\ legacyPc \in {"done", "failed"}
    /\ legacyPc' = "idle"
    /\ UNCHANGED <<legacyConstruction, legacyInstance, legacyAttempt, legacyResponse,
                   legacyIntervalTime, legacyError>>
    /\ UNCHANGED <<exFetchVars, timeCall, linkVars, waiting>>

InitLegacy == InitInstance({BaseOptions}) /\ InitIdle /\ LibraryIdle

NextLegacy ==
    \/ \E opts \in LegacyOptionCases : LegacyConstruct(opts)
    \/ LegacyCallFetch
    \/ \E r \in LegacyResponses : LegacyRespond(r)
    \/ LegacyDelayDone
    \/ LegacySettled

SpecLegacy == InitLegacy /\ [][NextLegacy]_vars

(***************************************************************************)
(* Claims about the ExFetch of v0.1.0, checked under SpecLegacy.           *)
(***************************************************************************)
\* the range a given interval stands for: n..n for a number, and for an
\* object what resolveIntervalOptions makes of it over the default range
LegacyGivenRange(given) ==
    IF given.kind = "number" THEN IntervalStatus(TRUE, given.value, given.value)
    ELSE resolveIntervalOptions(given, LegacyRetryDefault.interval).value

\* fetch waits before a retry and the response gave no usable Retry-After
LegacyFallbackWait ==
    /\ legacyPc = "delay"
    /\ RetryAfterRemainTimeMilliseconds(legacyResponse) = <<>>

\* C23: in the ExFetch of src/unnamed/part_000, a retry interval given in
\* the constructor options (retry.interval, or its aliases retry.delay and
\* retry.pause) is the range from which the fallback retry waits of fetch
\* are drawn when the response gives no usable Retry-After
C23_GivenIntervalUsed ==
    LegacyFallbackWait /\ LegacyRetryInterval(legacyConstruction.options.retry) # <<>> =>
        /\ LegacyGivenRange(LegacyRetryInterval(legacyConstruction.options.retry)[1]).minimum
              <= legacyIntervalTime[1]
        /\ legacyIntervalTime[1]
              <= LegacyGivenRange(LegacyRetryInterval(legacyConstruction.options.retry)[1]).maximum

(***************************************************************************)
(* SpecLinkCodec: HTTPHeaderLink.parse and HTTPHeaderLink.stringify as     *)
(* pure functions.  The header strings are written from parts: entries     *)
(* <uri> with up to MaxLinkFragments parameters, one or two entries to a   *)
(* header; or one malformed string.  Each parameter is kept with the key   *)
(* and the value its text stands for.                                      *)
(***************************************************************************)
MaxLinkFragments == 2

\* a parameter as written: text, and the key and value it stands for
LinkFragment(text, key, value, quoted) ==
    [text |-> text, key |-> key, value |-> value, quoted |-> quoted]

LinkFragments ==
    {LinkFragment("rel=next", "rel", "next", FALSE),
     LinkFragment("rel=\"next\"", "rel", "next", TRUE),
     LinkFragment("Rel=\"Prev\"", "Rel", "Prev", TRUE),
     LinkFragment("type=text/html", "type", "text/html", FALSE),
     LinkFragment("title=\"a, b\"", "title", "a, b", TRUE),
     LinkFragment("title=\"a;b\"", "title", "a;b", TRUE),
     LinkFragment("title=\"a\\\"b\"", "title", "a\"b", TRUE),
     LinkFragment("title=\"a\\\\b\"", "title", "a\\b", TRUE),
     LinkFragment("title*=x", "title*", "x", FALSE),
     LinkFragment("crossorigin", "crossorigin", "", FALSE),
     LinkFragment("hreflang=\"\"", "hreflang", "", TRUE),
     LinkFragment("anchor = \"x y\"", "anchor", "x y", TRUE)}

\* the parameters of one entry as written: their keys differ
LinkFragmentRuns(most) ==
    {fragments \in UNION {[1 .. n -> LinkFragments] : n \in 0 .. most} :
        \A i \in DOMAIN fragments, j \in DOMAIN fragments :
            i # j => toLowerCase(fragments[i].key) # toLowerCase(fragments[j].key)}

\* the text between "<" and ">"
LinkURITexts == {"https://a", "a%20b", "a%2Fb"}

\* an entry as written
LinkWritten(u, fragments) == [uri |-> u, fragments |-> fragments]

RECURSIVE LinkFragmentsText(_, _)
LinkFragmentsText(fragments, separator) ==
    IF fragments = <<>> THEN ""
    ELSE separator \o Head(fragments).text
         \o LinkFragmentsText(Tail(fragments), separator)

LinkWrittenText(written, separator) ==
    "<" \o written.uri \o ">" \o LinkFragmentsText(written.fragments, separator)

\* the entries a header can end with
LinkSecondEntries ==
    {LinkWritten("https://b", <<>>),
     LinkWritten("https://b", <<LinkFragment("rel=prev", "rel", "prev", FALSE)>>),
     LinkWritten("https://a", <<LinkFragment("rel=\"next\"", "rel", "next", TRUE)>>)}

\* a header string with what it was written from; defect names what is
\* wrong with a malformed one
LinkGiven(text, written, defect) ==
    [text |-> text, written |-> written, defect |-> defect]

LinkWellFormed(most) ==
    {LinkGiven(LinkWrittenText(LinkWritten(u, fragments), separator),
               <<LinkWritten(u, fragments)>>, "none") :
        u \in LinkURITexts, fragments \in LinkFragmentRuns(most), separator \in {"; ", ";"}}
    \cup {LinkGiven(LinkWrittenText(LinkWritten(u, fragments), "; ") \o ", "
                        \o LinkWrittenText(second, "; "),
                    <<LinkWritten(u, fragments), second>>, "none") :
             u \in LinkURITexts, fragments \in LinkFragmentRuns(most), second \in LinkSecondEntries}

\* malformed entries, by the test of #parse that they fail
LinkMalformedEntries ==
    {<<"no <", "https://a>; rel=next">>, <<"no <", "x<https://a>">>,
     <<"no >", "<https://a; rel=next">>, <<"no >", "<https://a">>,
     <<"no URI", "<>; rel=next">>, <<"no URI", "<>">>,
     <<"URI whitespace", "<a b>">>, <<"URI whitespace", "< a>; rel=next">>,
     <<"after >", "<a> x">>, <<"after >", "<a>rel=next">>, <<"after >", "<a>=">>,
     <<"key", "<a>; =x">>, <<"key", "<a>; ;">>, <<"key", "<a>; \"x\"">>,
     <<"key", "<a>; *=x">>, <<"key", "<a>; rel=next; ">>,
     <<"after key", "<a>; rel next">>, <<"after key", "<a>; rel\"next\"">>,
     <<"after key", "<a>; title*x">>,
     <<"after value", "<a>; rel=next x">>, <<"after value", "<a>; rel=\"next\" x">>,
     <<"after value", "<a>; rel=\"next\"x">>, <<"after value", "<a>; rel=\"a\"=b">>}

\* a malformed entry alone, and after a well-formed entry
LinkMalformed ==
    {LinkGiven(m[2], <<>>, m[1]) : m \in LinkMalformedEntries}
    \cup {LinkGiven(LinkWrittenText(second, "; ") \o ", " \o m[2], <<>>, m[1]) :
             m \in LinkMalformedEntries, second \in LinkSecondEntries}

LinkGivens(most) == LinkWellFormed(most) \cup LinkMalformed

\* HTTPHeaderLink.parse(text) is called
CodecInit ==
    /\ \E given \in LinkGivens(MaxLinkFragments) :
          linkCall = LinkCall("parse", given, "called", <<>>, "", FALSE)
    /\ linkEntries = <<>>
    /\ linkHistory = <<>>

\* HTTPHeaderLink.parse(text) returns a collection, kept in linkEntries, or
\* throws
CodecParse ==
    /\ linkCall.method = "parse"
    /\ linkCall.outcome = "called"
    /\ \E parsed \in {HTTPHeaderLinkAdd(<<>>, LinkString(linkCall.arguments.text))} :
          IF parsed.ok
          THEN /\ linkCall' = [linkCall EXCEPT !.outcome = "ok", !.entries = parsed.entries]
               /\ linkEntries' = parsed.entries
          ELSE /\ linkCall' = [linkCall EXCEPT !.outcome = parsed.error]
               /\ UNCHANGED linkEntries
    /\ UNCHANGED <<linkHistory, exFetchVars, timeCall, legacyVars,
                   waiting>>

\* HTTPHeaderLink.stringify(c.entries()) for the collection c parsed
CodecStringify ==
    /\ linkCall.method = "parse"
    /\ linkCall.outcome = "ok"
    /\ \E made \in {stringify(LinkArray(linkEntries))} :
          linkCall' = [linkCall EXCEPT !.method = "stringify",
                                       !.outcome = IF made.ok THEN "ok" ELSE made.error,
                                       !.text = made.text]
    /\ UNCHANGED <<linkEntries, linkHistory, exFetchVars, timeCall, legacyVars,
                   waiting>>

\* HTTPHeaderLink.parse of the string that stringify returned
CodecParseAgain ==
    /\ linkCall.method = "stringify"
    /\ linkCall.outcome = "ok"
    /\ \E parsed \in {HTTPHeaderLinkAdd(<<>>, LinkString(linkCall.text))} :
          linkCall' = [linkCall EXCEPT !.method = "parse again",
                                       !.outcome = IF parsed.ok THEN "ok" ELSE parsed.error,
                                       !.entries = IF parsed.ok THEN parsed.entries ELSE <<>>]
    /\ UNCHANGED <<linkEntries, linkHistory, exFetchVars, timeCall, legacyVars,
                   waiting>>

InitLinkCodec ==
    InitInstance({BaseOptions}) /\ InitIdle /\ TimeIdle /\ LegacyIdle /\ CodecInit
    /\ WaitIdle

NextLinkCodec == CodecParse \/ CodecStringify \/ CodecParseAgain

SpecLinkCodec == InitLinkCodec /\ [][NextLinkCodec]_vars

(***************************************************************************)
(* Claims about the Link header codec, checked under SpecLinkCodec.        *)
(***************************************************************************)
\* C24: Link header round-trip: for every collection c that
\* HTTPHeaderLink.parse produces from a header string, stringify(c)
\* succeeds, and parse(stringify(c)) succeeds and yields the same ordered
\* sequence of (uri, parameters) pairs as c, including parameter values that
\* contain double quotes or backslashes and URIs with percent-encoded
\* characters
C24_RoundTrip ==
    /\ linkCall.method = "stringify" => linkCall.outcome = "ok"
    /\ linkCall.method = "parse again" =>
          linkCall.outcome = "ok" /\ linkCall.entries = linkEntries

\* HTTPHeaderLink.parse has ended on a well-formed header string
ParsedWellFormed ==
    /\ linkCall.method = "parse"
    /\ linkCall.outcome # "called"
    /\ linkCall.arguments.defect = "none"

\* the key a parameter as written is stored under
LinkStoredKey(fragment) == toLowerCase(fragment.key)

\* the value a parameter as written stands for, as it is to be stored
LinkStoredValue(fragment) ==
    IF LinkStoredKey(fragment) \in {"rel", "type"} THEN toLowerCase(fragment.value)
    ELSE fragment.value

\* the parameters written quoted (or unquoted) are stored with the values
\* they stand for, in a collection with one entry for each entry written
StoredAsWritten(quoted) ==
    /\ linkCall.outcome = "ok"
    /\ Len(linkEntries) = Len(linkCall.arguments.written)
    /\ \A i \in DOMAIN linkCall.arguments.written :
          \A j \in DOMAIN linkCall.arguments.written[i].fragments :
              linkCall.arguments.written[i].fragments[j].quoted = quoted =>
                  getParameter(linkEntries[i].parameters,
                               LinkStoredKey(linkCall.arguments.written[i].fragments[j]))
                  = <<LinkStoredValue(linkCall.arguments.written[i].fragments[j])>>

\* C26: when HTTPHeaderLink parses a quoted parameter value, every character
\* up to the closing unescaped quote, commas and semicolons included,
\* belongs to that one value: a comma inside quotes never ends the entry
C26_QuotedWhole == ParsedWellFormed => StoredAsWritten(TRUE)

\* <https://a>; rel=next; title="a, b" was parsed into one entry whose title
\* is "a, b"
C26_Witness ==
    /\ ParsedWellFormed
    /\ linkCall.arguments.text = "<https://a>; rel=next; title=\"a, b\""
    /\ Len(linkEntries) = 1
    /\ getParameter(linkEntries[1].parameters, "title") = <<"a, b">>

\* C27: when HTTPHeaderLink parses an unquoted parameter value, the stored
\* value is exactly the token's characters from the cursor up to, and not
\* including, the next whitespace, ";" or "," (or the end of the string),
\* for every position of the parameter in the header
C27_UnquotedToken == ParsedWellFormed => StoredAsWritten(FALSE)

\* HTTPHeaderLink.parse has ended on a malformed header string
ParsedMalformed ==
    /\ linkCall.method = "parse"
    /\ linkCall.outcome # "called"
    /\ linkCall.arguments.defect # "none"

\* C29: HTTPHeaderLink parsing fails with a parse error, and returns no
\* collection, whenever an entry does not begin with "<", the closing ">"
\* is missing, the URI is empty or contains whitespace, the character after
\* ">" is none of ",", ";" or end of string, a parameter key is not valid,
\* the character after a key is none of ",", ";", "=" or end of string, or
\* the character after a value is none of ",", ";" or end of string
C29_MalformedFails ==
    ParsedMalformed =>
        /\ linkCall.outcome = "SyntaxError"
        /\ linkCall.entries = <<>>
        /\ linkEntries = <<>>

\* a string whose second entry has whitespace in its URI was refused, and
\* so was one with a character after a quoted value
C29_Witness ==
    /\ ParsedMalformed
    /\ linkCall.outcome = "SyntaxError"
    /\ linkCall.arguments.text
          \in {"<https://b>; rel=prev, <a b>", "<a>; rel=\"next\"x"}

(***************************************************************************)
(* SpecLink: one HTTPHeaderLink, made empty, on which a caller calls add   *)
(* up to MaxLinkCalls times (new HTTPHeaderLink(value) and                 *)
(* HTTPHeaderLink.parse(value) are the first add, lines 107-111, 316-318)  *)
(* and the queries at any time.                                            *)
(***************************************************************************)
MaxLinkCalls == 2

LinkTexts ==
    {"<https://example.com/p?x=1>; rel=\"next\", <https://example.com/p?x=0>; rel=\"prev\"",
     "<https://a>; rel=next",
     "<https://a>; rel=\"next\"",
     "<https://a>; REL=\"Next\"; Type=\"Text/HTML\"; Title=\"Ab\"",
     "<https://b>; rel=\"prev\", <a b>",
     ""}

LinkArrays ==
    {<<LinkEntry("https://a", <<<<"rel", "next">>>>),
       LinkEntry("https://a", <<<<"rel", "next">>>>)>>,
     <<LinkEntry("https://c", <<<<"Rel", "next">>>>)>>,
     <<LinkEntry("https://c", <<<<"rel", "Next">>>>)>>,
     <<LinkEntry("https://c", <<<<"type", "Text">>>>)>>,
     <<LinkEntry("https://c", <<<<"a b", "x">>>>)>>,
     <<LinkEntry("https://c", <<<<"title", "Ab">>>>), LinkEntry("c d", <<>>)>>}

\* the entries of another collection: the one parsed from the first text
LinkCollections ==
    {HTTPHeaderLinkAdd(<<>>, LinkString(
         "<https://example.com/p?x=1>; rel=\"next\", <https://example.com/p?x=0>; rel=\"prev\""
     )).entries}

LinkValues ==
    {LinkString(text) : text \in LinkTexts}
    \cup {LinkHeaders(<<>>), LinkResponse(<<"<https://b>; rel=\"prev\"">>)}
    \cup {LinkArray(entries) : entries \in LinkArrays}
    \cup {LinkCollection(entries) : entries \in LinkCollections}

LinkQueryKeys == {"rel", "title", "Rel"}

LinkQueryValues == {"next", "prev", "NEXT", "Ab"}

\* add(value): what the value gives is pushed; when it throws, what was
\* pushed before stays
LinkAdd(value) ==
    /\ Len(linkHistory) < MaxLinkCalls
    /\ \E added \in {HTTPHeaderLinkAdd(linkEntries, value)} :
          /\ linkEntries' = added.entries
          /\ linkCall' = LinkCall("add", value, IF added.ok THEN "ok" ELSE added.error,
                                  <<>>, "", FALSE)
          /\ linkHistory' = Append(linkHistory, [value |-> value, ok |-> added.ok])
    /\ UNCHANGED <<exFetchVars, timeCall, legacyVars, waiting>>

\* entries()
LinkEntriesCall ==
    /\ linkCall' = LinkCall("entries", <<>>, "ok", linkEntries, "", FALSE)
    /\ UNCHANGED <<linkEntries, linkHistory, exFetchVars, timeCall, legacyVars,
                   waiting>>

\* getByRel(value)
LinkGetByRel(value) ==
    /\ \E got \in {getByRel(linkEntries, value)} :
          linkCall' = LinkCall("getByRel", <<value>>,
                               IF got.ok THEN "ok" ELSE "SyntaxError", got.entries, "",
                               FALSE)
    /\ UNCHANGED <<linkEntries, linkHistory, exFetchVars, timeCall, legacyVars,
                   waiting>>

\* getByParameter(key, value)
LinkGetByParameter(key, value) ==
    /\ \E got \in {getByParameter(linkEntries, key, value)} :
          linkCall' = LinkCall("getByParameter", <<key, value>>,
                               IF got.ok THEN "ok" ELSE "SyntaxError", got.entries, "",
                               FALSE)
    /\ UNCHANGED <<linkEntries, linkHistory, exFetchVars, timeCall, legacyVars,
                   waiting>>

\* hasParameter(key, value)
LinkHasParameter(key, value) ==
    /\ \E got \in {hasParameter(linkEntries, key, value)} :
          linkCall' = LinkCall("hasParameter", <<key, value>>,
                               IF got.ok THEN "ok" ELSE "SyntaxError", <<>>, "",
                               got.ok /\ got.has)
    /\ UNCHANGED <<linkEntries, linkHistory, exFetchVars, timeCall, legacyVars,
                   waiting>>

\* toString()
LinkToString ==
    /\ linkCall' = LinkCall("toString", <<>>, "ok", <<>>, toString(linkEntries), FALSE)
    /\ UNCHANGED <<linkEntries, linkHistory, exFetchVars, timeCall, legacyVars,
                   waiting>>

InitLink == InitInstance({BaseOptions}) /\ InitIdle /\ LibraryIdle

NextLink ==
    \/ \E value \in LinkValues : LinkAdd(value)
    \/ LinkEntriesCall
    \/ \E value \in LinkQueryValues : LinkGetByRel(value)
    \/ \E key \in LinkQueryKeys, value \in LinkQueryValues : LinkGetByParameter(key, value)
    \/ \E key \in LinkQueryKeys, value \in LinkQueryValues : LinkHasParameter(key, value)
    \/ LinkToString

SpecLink == InitLink /\ [][NextLink]_vars

\* the entries of the collection whose stored rel value is the value given,
\* in the order of the collection
EntriesWithRel(value) ==
    LET Stored(entry) == getParameter(entry.parameters, "rel") = <<value>>
    IN  SelectSeq(linkEntries, Stored)

LinkExampleText ==
    "<https://example.com/p?x=1>; rel=\"next\", <https://example.com/p?x=0>; rel=\"prev\""

LinkExampleOnly ==
    /\ Len(linkHistory) = 1
    /\ linkHistory[1].value = LinkString(LinkExampleText)

\* C25: getByRel(v) fails when v is not lowercase and otherwise returns the
\* entries whose stored rel value is v, in collection order (the first entry
\* alone for "next" on the two-entry next/prev header);
\* getByParameter("rel", v) ends as getByRel(v) does on the same collection;
\* and hasParameter(k, v) is true exactly when getByParameter(k, v) returns
\* at least one entry.
C25_Queries ==
    /\ linkCall.method = "getByRel" =>
          /\ ~isStringCaseLower(linkCall.arguments[1]) => linkCall.outcome = "SyntaxError"
          /\ isStringCaseLower(linkCall.arguments[1]) =>
                /\ linkCall.outcome = "ok"
                /\ linkCall.entries = EntriesWithRel(linkCall.arguments[1])
          /\ LinkExampleOnly /\ linkCall.arguments[1] = "next" =>
                linkCall.entries
                    = <<LinkEntry("https://example.com/p?x=1", <<<<"rel", "next">>>>)>>
    /\ linkCall.method = "getByParameter" /\ linkCall.arguments[1] = "rel" =>
          /\ ~isStringCaseLower(linkCall.arguments[2]) => linkCall.outcome = "SyntaxError"
          /\ isStringCaseLower(linkCall.arguments[2]) =>
                /\ linkCall.outcome = "ok"
                /\ linkCall.entries = EntriesWithRel(linkCall.arguments[2])
    /\ linkCall.method = "hasParameter" =>
          \E got \in {getByParameter(linkEntries, linkCall.arguments[1],
                                     linkCall.arguments[2])} :
             /\ linkCall.outcome = "ok" <=> got.ok
             /\ linkCall.has <=> got.ok /\ Len(got.entries) > 0

\* getByRel("next") has returned the first entry of the collection parsed
\* from the two-entry next/prev header
C25_Witness ==
    /\ LinkExampleOnly
    /\ Len(linkEntries) = 2
    /\ linkCall.method = "getByRel"
    /\ linkCall.arguments = <<"next">>
    /\ linkCall.entries = <<linkEntries[1]>>

LinkUppercaseText == "<https://a>; REL=\"Next\"; Type=\"Text/HTML\"; Title=\"Ab\""

\* C28: in the collection every parameter key matches [\w-]+\*? and is
\* lowercase, and every rel and type value is lowercase, whatever was added
\* (header strings, Headers, Responses, entry sequences, other collections)
\* and whether or not the add ended with an error.
C28_StoredLowercase ==
    \A i \in 1..Len(linkEntries) :
       \A j \in 1..Len(linkEntries[i].parameters) :
          \E parameter \in {linkEntries[i].parameters[j]} :
             /\ isParameterKey(parameter[1])
             /\ isStringCaseLower(parameter[1])
             /\ parameter[1] \in httpHeaderLinkParametersNeedLowerCase
                   => isStringCaseLower(parameter[2])

\* a header written with uppercase keys and uppercase rel and type values
\* was added and is stored in lowercase, and an entry sequence with an
\* uppercase key was then refused
C28_Witness ==
    /\ Len(linkHistory) = 2
    /\ linkHistory[1] = [value |-> LinkString(LinkUppercaseText), ok |-> TRUE]
    /\ linkHistory[2] = [value |-> LinkArray(<<LinkEntry("https://c", <<<<"Rel", "next">>>>)>>),
                         ok |-> FALSE]
    /\ linkEntries = <<LinkEntry("https://a", <<<<"rel", "next">>, <<"type", "text/html">>,
                                                <<"title", "Ab">>>>)>>

\* what a value given to add holds, in its own order: the entries of an
\* entry sequence or of another collection, the entries of the header
\* otherwise
LinkContribution(value) ==
    IF value.kind \in {"array", "link"} THEN value.entries
    ELSE HTTPHeaderLinkAdd(<<>>, value).entries

RECURSIVE LinkContributions(_)
LinkContributions(history) ==
    IF history = <<>> THEN <<>>
    ELSE LinkContribution(Head(history).value) \o LinkContributions(Tail(history))

LinkAllAdded == \A i \in 1..Len(linkHistory) : linkHistory[i].ok

\* C30: when every add so far succeeded, the collection, and what entries()
\* returns, is the concatenation in call order of what each call was given,
\* each in its own order; equal entries stay.
C30_AddAppends ==
    LinkAllAdded =>
       /\ linkEntries = LinkContributions(linkHistory)
       /\ linkCall.method = "entries" => linkCall.entries = LinkContributions(linkHistory)

\* two adds succeeded, a header and then an entry sequence, which together
\* give three entries of the same URI and rel value, and entries() returned
\* all three
C30_Witness ==
    /\ Len(linkHistory) = 2
    /\ LinkAllAdded
    /\ linkHistory[1].value = LinkString("<https://a>; rel=\"next\"")
    /\ linkHistory[2].value.kind = "array"
    /\ linkCall.method = "entries"
    /\ Len(linkCall.entries) = 3
    /\ \A i \in 1..3 :
          linkCall.entries[i] = LinkEntry("https://a", <<<<"rel", "next">>>>)

(***************************************************************************)
(* SpecObserve: an instance with onEvent callbacks, which look at their    *)
(* snapshot or abort the signal of the caller, a redirect.maximum that     *)
(* lets a call follow a chain of redirects, and waits of 0 and of more     *)
(* milliseconds; the caller calls fetch and fetchPaginate, one call at a   *)
(* time.                                                                   *)
(***************************************************************************)
MaxObservePages == 2

\* the callbacks of an instance: none, all three of one kind, or one alone
ObserverCases ==
    {[redirect |-> observer, retry |-> observer, paginate |-> observer] :
        observer \in {<<>>, <<"observe">>, <<"abort">>}}
    \cup {[redirect |-> <<"observe">>, retry |-> <<>>, paginate |-> <<>>],
          [redirect |-> <<>>, retry |-> <<"abort">>, paginate |-> <<>>]}

\* the waits of an instance: all of 0 milliseconds (for redirects and pages
\* the default), or all of more
ObserveDelays ==
    {[redirect |-> <<>>, retry |-> <<DelayNumber(0)>>, paginate |-> <<>>],
     [redirect |-> <<DelayNumber(2)>>, retry |-> <<DelayObject(<<1>>, <<2>>)>>,
      paginate |-> <<DelayNumber(3)>>]}

ObserveOptions ==
    {[httpStatusCodesRetryable |-> <<{503}>>,
      paginate |-> [NoPaginateInput EXCEPT !.onEvent = observers.paginate,
                                           !.delay = delays.paginate],
      redirectDelay |-> delays.redirect,
      redirectMaximum |-> redirectMaximum,
      redirectOnEvent |-> observers.redirect,
      retryDelay |-> delays.retry,
      retryMaximum |-> <<1>>,
      retryOnEvent |-> observers.retry,
      timeout |-> <<>>] :
        observers \in ObserverCases, delays \in ObserveDelays,
        redirectMaximum \in {<<>>, <<2>>}}

ObserveInits == [redirect : {<<"follow">>}, signal : {<<>>, <<"caller">>}]

\* the optionsOverride arguments of the fetchPaginate calls
ObserveOverrides == {NoPaginateInput, [NoPaginateInput EXCEPT !.onEvent = <<"observe">>]}

\* what the transport answers: the pages before the last name a next page
ObserveResponses ==
    {Response(200, <<>>, <<>>, <<>>),
     Response(503, <<>>, <<>>, <<>>),
     Response(503, <<>>, <<"1">>, <<>>),
     Response(301, <<"/n">>, <<>>, <<>>),
     Response(301, <<"b">>, <<>>, <<>>)}
    \cup IF ppc = "fetch" /\ pageCalls < MaxObservePages
         THEN {Response(200, <<>>, <<>>, <<"<https://h/a/y>; rel=\"next\"">>)}
         ELSE {}

InitObserve == InitInstance(ObserveOptions) /\ InitIdle /\ LibraryIdle

NextObserve ==
    \/ \E ini \in ObserveInits :
          \E signalState \in SignalStates(ini) :
             CallFetch("https://h/a/x", ini, signalState)
    \/ \E ini \in ObserveInits, override \in ObserveOverrides :
          \E signalState \in SignalStates(ini) :
             CallFetchPaginate("https://h/a/x", ini, signalState, override)
    \/ \E r \in ObserveResponses : FetchRespond(r)
    \/ TransportFail
    \/ DelayDone
    \/ DelayReject
    \/ AbortCaller
    \/ PageFetched
    \/ PageFetchFailed
    \/ PageDelayDone
    \/ PageDelayReject
    \/ FetchSettled
    \/ PaginateSettled

SpecObserve == InitObserve /\ [][NextObserve]_vars

(***************************************************************************)
(* Claims about the order of the steps of a call, under SpecObserve.       *)
(***************************************************************************)
\* this step makes the call of this.fetch for a page
PageRequestStarts == pageCalls' = pageCalls + 1

\* this step ends the part of fetchPaginate that waits for this.fetch
PageRequestEnds == ppc = "fetch" /\ ppc' # "fetch"

\* C31: in a fetchPaginate call the request for a page starts only when no
\* request of the call is in progress: the first one at the call, every
\* later one out of the wait between two pages, which was not rejected,
\* with the responses of all earlier pages collected; during that wait no
\* transport call is in flight; fetchPaginate goes on from a page only when
\* this.fetch has returned or thrown, whatever redirects and retries it
\* made; and each response is put at the end of the sequence, at the index
\* of its page.
C31_PagesInTurn ==
    [][/\ ppc = "delay" => fpc = "idle" /\ delay = NoDelay
       /\ PageRequestStarts =>
             /\ fpc = "idle"
             /\ fpc' = "transport"
             /\ calls' = 1
             /\ \/ ppc = "idle" /\ pageCalls = 0 /\ page' = 1
                \/ /\ ppc = "delay"
                   /\ pageDelay.state \in {"resolved", "pending"}
                   /\ page = pageCalls + 1
                   /\ page' = page
             /\ Len(responses') = pageCalls
       /\ PageRequestEnds => fpc \in {"done", "failed"}
       /\ responses' # responses /\ ppc = "fetch" =>
             /\ fpc = "done"
             /\ responses' = Append(responses, result)
             /\ Len(responses') = pageCalls
             /\ pageCalls = page
       /\ calls' = calls + 1 /\ ppc = "fetch" => ppc' = "fetch" /\ pageCalls' = pageCalls]_vars

\* the request for page 2 is in flight, after a page 1 whose request was
\* retried and redirected, and after the wait between the pages
C31_Witness ==
    /\ ppc = "fetch"
    /\ fpc = "transport"
    /\ pageCalls = 2
    /\ page = 2
    /\ Len(responses) = 1
    /\ Len(events) = 3
    /\ {events[1].kind, events[2].kind} = {"redirect", "retry"}
    /\ events[3].kind = "paginate"

\* this step begins a wait of fetch of the kind given
WaitBegins(kind) == waits'[kind] = waits[kind] + 1

\* this step begins the wait before a further page
PageWaitBegins == pageWaits' = pageWaits + 1

\* the last onEvent call made
LastEvent == events[Len(events)]

\* the step called one onEvent callback, with the snapshot given
Observed(snapshot) == events' = Append(events, snapshot)

\* C32: a step that decides a redirect, a retry or a further page calls the
\* onEvent callback configured for it exactly once, with the counter just
\* incremented (the number of the page to come), the configured maximum,
\* the time of the wait that the step then begins and the URL that the
\* transport call after the wait is made with, before that call; no other
\* step calls a callback, none is called for the first page, and none when
\* none is configured.
C32_ObserverCalls ==
    [][/\ WaitBegins("redirect") =>
             /\ redirects' = redirects + 1
             /\ fpc' = "delay" /\ calls' = calls
             /\ IF redirect.onEvent = <<>> THEN events' = events
                ELSE Observed([kind |-> "redirect", countCurrent |-> redirects',
                               countMaximum |-> redirect.maximum,
                               after |-> delay'.value, url |-> requestFetchInput',
                               statusCode |-> response'.status, sent |-> calls])
       /\ WaitBegins("retry") =>
             /\ retries' = retries + 1
             /\ fpc' = "delay" /\ calls' = calls
             /\ IF retry.onEvent = <<>> THEN events' = events
                ELSE Observed([kind |-> "retry", countCurrent |-> retries',
                               countMaximum |-> retry.maximum,
                               after |-> delay'.value, url |-> requestFetchInput',
                               statusCode |-> response'.status, sent |-> calls])
       /\ PageWaitBegins =>
             /\ page' = page + 1 /\ page' > 1
             /\ ppc' = "delay" /\ pageCalls' = pageCalls
             /\ IF options.onEvent = <<>> THEN events' = events
                ELSE Observed([kind |-> "paginate", countCurrent |-> page',
                               countMaximum |-> options.maximum,
                               after |-> pageDelay'.value, url |-> uri'[1],
                               statusCode |-> 0, sent |-> pageCalls])
       /\ ~WaitBegins("redirect") /\ ~WaitBegins("retry") /\ ~PageWaitBegins =>
             events' = events \/ events' = <<>>
       /\ fpc = "delay" /\ calls' = calls + 1
          /\ (IF delay.kind = "redirect" THEN redirect ELSE retry).onEvent # <<>> =>
             /\ LastEvent.kind = delay.kind
             /\ LastEvent.after = delay.value
             /\ LastEvent.url = request'.url
             /\ LastEvent.sent = calls
       /\ ppc = "delay" /\ PageRequestStarts /\ options.onEvent # <<>> =>
             /\ LastEvent.kind = "paginate"
             /\ LastEvent.after = pageDelay.value
             /\ LastEvent.url = request'.url
             /\ LastEvent.countCurrent = pageCalls'
       /\ PageRequestStarts /\ pageCalls = 0 => events' = <<>> /\ events = <<>>]_vars

\* the callbacks of a fetchPaginate call were called three times: for a
\* redirect and a retry of page 1, in either order, each with count 1 of
\* its maximum, and for page 2, whose wait of 3 milliseconds is pending
C32_Witness ==
    /\ ppc = "delay"
    /\ pageDelay.state = "pending"
    /\ pageDelay.value = 3
    /\ Len(events) = 3
    /\ \E i \in 1 .. 2 :
          /\ events[i].kind = "redirect" /\ events[i].countCurrent = 1
          /\ events[i].countMaximum = 2 /\ events[i].after = 2
          /\ events[i].url = "https://h/n"
    /\ \E i \in 1 .. 2 :
          /\ events[i].kind = "retry" /\ events[i].countCurrent = 1
          /\ events[i].countMaximum = 1 /\ events[i].after = 1000
    /\ events[3] = [kind |-> "paginate", countCurrent |-> 2, countMaximum |-> Infinity,
                    after |-> 3, url |-> "https://h/a/y", statusCode |-> 0, sent |-> 1]

\* this step makes a further transport call of the running fetch
SendsAgain == fpc = "delay" /\ calls' = calls + 1

TransportCompletes == (\E r \in TransportResponses(request.url) : FetchRespond(r)) \/ TransportFail

WaitCompletes == DelayDone \/ DelayReject

SpecFair == Spec /\ WF_vars(TransportCompletes) /\ WF_vars(WaitCompletes)

\* the transport calls one fetch can make on the instance
CallsBound ==
    1 + retry.maximum + (IF requestRedirectControl THEN redirect.maximum ELSE 0)

\* C34: the retry counter never passes retry.maximum, the redirect counter
\* of a fetch that intercepts redirects never passes redirect.maximum, a
\* redirect leaves the retry counter as it is, one call makes at most
\* 1 + retry.maximum + redirect.maximum transport calls (1 + retry.maximum
\* when redirects are not intercepted), and every fetch in progress comes
\* to return or throw when each transport call and each wait completes.
C34_Terminates ==
    /\ [](retries <= retry.maximum)
    /\ [](requestRedirectControl => redirects <= redirect.maximum)
    /\ [](calls <= CallsBound)
    /\ [](calls <= 1 + waits.retry + waits.redirect)
    /\ [][WaitBegins("redirect") => retries' = retries]_vars
    /\ [](fpc \in {"transport", "delay"} => <>(fpc \in {"done", "failed"}))

\* a fetch that made every call it can make: 1 + retry.maximum +
\* redirect.maximum, with both maximums above 0 and a retry before the
\* redirect
C34_Witness ==
    /\ fpc = "done"
    /\ requestRedirectControl
    /\ retry.maximum = 2
    /\ redirect.maximum = 1
    /\ calls = 4
    /\ retries = 2
    /\ redirects = 1
    /\ request.url # input

(***************************************************************************)
(* SpecRetryable: the caller edits the retryable set of an instance at any *)
(* time, also while a fetch or a fetchPaginate call of the instance is in  *)
(* progress.                                                               *)
(***************************************************************************)
RetryableOptions ==
    [httpStatusCodesRetryable : {<<>>, <<{}>>},
     paginate : {[NoPaginateInput EXCEPT !.maximum = <<2>>]},
     redirectDelay : {<<>>},
     redirectMaximum : {<<>>, <<1>>},
     redirectOnEvent : {<<>>},
     retryDelay : {<<DelayNumber(1)>>},
     retryMaximum : {<<2>>},
     retryOnEvent : {<<>>},
     timeout : {<<>>}]

RetryableInits == [redirect : {<<"follow">>}, signal : {<<>>}]

\* the status code the caller adds to or deletes from the retryable set: of
\* the responses below only a 503 is ever in the set
RetryableEdits == {503}

RetryableResponses ==
    {Response(200, <<>>, <<>>, <<>>),
     Response(200, <<>>, <<>>, <<"<https://h/a/y>; rel=\"next\"">>),
     Response(404, <<>>, <<>>, <<>>),
     Response(503, <<>>, <<>>, <<>>),
     Response(301, <<"/n">>, <<>>, <<>>)}

InitRetryable == InitInstance(RetryableOptions) /\ InitIdle /\ LibraryIdle

NextRetryable ==
    \/ \E ini \in RetryableInits : CallFetch("https://h/a/x", ini, "none")
    \/ \E ini \in RetryableInits :
          CallFetchPaginate("https://h/a/x", ini, "none", NoPaginateInput)
    \/ \E r \in RetryableResponses : FetchRespond(r)
    \/ TransportFail
    \/ DelayDone
    \/ \E value \in RetryableEdits : addHTTPStatusCodeRetryable(value)
    \/ \E value \in RetryableEdits : deleteHTTPStatusCodeRetryable(value)
    \/ PageFetched
    \/ PageFetchFailed
    \/ PageDelayDone
    \/ FetchSettled
    \/ PaginateSettled

SpecRetryable == InitRetryable /\ [][NextRetryable]_vars


\* C35: the retry decision of fetch reads the retryable status set as it is
\* when the response arrives, not as it was when the call began: a response
\* that is not ok, with retries left, begins a retry wait exactly when its
\* status is in the set of that moment, so a status code added or deleted
\* during a transport call or a wait decides the later responses of the same
\* call; and only addHTTPStatusCodeRetryable and
\* deleteHTTPStatusCodeRetryable change the set, each by its one value: no
\* step of fetch or fetchPaginate does.
RetryDecision ==
    /\ Responded
    /\ ~ FetchBypass(input)
    /\ response'.status # 304
    /\ ~ RedirectBranch(requestRedirectControl, response'.status)
    /\ ~ ResponseOk(response')
    /\ retries < retry.maximum

RetryableEdited ==
    \E value \in RetryableEdits :
        \/ /\ value \notin statusCodesRetryable
           /\ statusCodesRetryable' = statusCodesRetryable \cup {value}
        \/ /\ value \in statusCodesRetryable
           /\ statusCodesRetryable' = statusCodesRetryable \ {value}

C35_SetReadAtDecision ==
    /\ [][RetryDecision =>
            (WaitBegins("retry") <=> response'.status \in statusCodesRetryable)]_vars
    /\ [][statusCodesRetryable' # statusCodesRetryable =>
            /\ RetryableEdited
            /\ UNCHANGED <<caller, signalVars, fetchVars, pageVars, events>>]_vars

\* one fetch waited after its first 503 and returned its second 503 with a
\* retry still left: 503 was deleted from the set while the call was under way
C35_Witness ==
    /\ fpc = "done"
    /\ caller = "fetch"
    /\ calls = 2
    /\ waits.retry = 1
    /\ retries = 1
    /\ retry.maximum = 2
    /\ result.status = 503
    /\ 503 \notin statusCodesRetryable


\* C36: the optionsOverride of a fetchPaginate call serves that call only.
\* No step of a fetchPaginate call, from the call to its return or throw,
\* changes the stored pagination policy of the instance, whatever override
\* was passed and whether the call returns or throws; the stored policy of
\* an instance is at all times the one its constructor resolved; and a call
\* without override runs on exactly that policy.
FetchPaginateStep == caller = "fetchPaginate" \/ caller' = "fetchPaginate"

C36_OverridePerCall ==
    /\ [](Constructed => paginate = ExFetchConstructor(construction.options).paginate)
    /\ [][FetchPaginateStep => paginate' = paginate]_vars
    /\ [][/\ caller = "none"
          /\ caller' = "fetchPaginate"
          /\ optionsOverride' = NoPaginateInput
          => options' = ExFetchConstructor(construction.options).paginate]_vars

\* a call that stopped after one page because of its override of the
\* maximum, on an instance whose stored maximum is another
C36_Witness ==
    /\ caller = "fetchPaginate"
    /\ ppc = "done"
    /\ optionsOverride.maximum = <<1>>
    /\ options.maximum = 1
    /\ paginate.maximum # 1
    /\ Len(responses) = 1
    /\ uri # <<>>


\* C37: when fetch follows redirects itself, the URL of the transport call
\* made after a redirect is the Location of the redirect response resolved
\* against the URL the caller passed to fetch, on the first hop and on every
\* later one, whatever URL the redirected request went to.
C37_ResolvedAgainstInput ==
    [][SendsAgain /\ delay.kind = "redirect"
       => <<request'.url>> = URLResolve(response.location[1], input)]_vars

\* the second hop of a chain: the request to https://h/n, reached from
\* https://h/a/x by the Location "/n", was answered with the Location "b",
\* and the next request goes to https://h/a/b
C37_Witness ==
    /\ fpc = "transport"
    /\ input = "https://h/a/x"
    /\ redirects = 2
    /\ Len(events) = 2
    /\ events[1].kind = "redirect"
    /\ events[1].url = "https://h/n"
    /\ events[2].kind = "redirect"
    /\ response.location = <<"b">>
    /\ request.url = "https://h/a/b"


\* C38: an HTTPHeaderLink.add call that throws leaves the entries of the
\* collection exactly as they were before the call.
FailedAdd ==
    /\ Len(linkHistory') = Len(linkHistory) + 1
    /\ ~ linkHistory'[Len(linkHistory')].ok

C38_FailedAddKeepsNothing == [][FailedAdd => linkEntries' = linkEntries]_vars


\* C39: a wait of fetch that starts when the signal of the request is
\* already aborted is rejected from the start, whatever its duration, 0
\* included; so after a redirect or retry decision with the signal aborted,
\* fetch makes no further transport call.
WaitStartsAborted ==
    /\ fpc = "transport"
    /\ fpc' = "delay"
    /\ SignalAborted(requestSignal)'

C39_AbortedWaitRejects ==
    /\ [][WaitStartsAborted => delay'.state = "rejected"]_vars
    /\ [][SendsAgain => ~ SignalAborted(requestSignal)]_vars


(***************************************************************************)
(* SpecWait: one setDelay call at a time, on its own, with the timer       *)
(* expiry and the abort of the signal in every order.  SpecWaitFair adds   *)
(* that time passes and that a timer that is due runs its callback.        *)
(***************************************************************************)
MaxWait == 6

WaitValues == {-1, 0} \cup 1 .. MaxWait

\* the caller calls setDelay(value, signal), the signal absent, not yet
\* aborted, or aborted
SetDelayCall(value, signalState) ==
    /\ waiting.promise = "none"
    /\ waiting' = setDelay(value, signalState)
    /\ UNCHANGED <<exFetchVars, timeCall, legacyVars, linkVars>>

\* a millisecond passes while the timer is armed
TimerTick ==
    /\ waiting.timer = "armed"
    /\ waiting.elapsed < waiting.value
    /\ waiting' = [waiting EXCEPT !.elapsed = @ + 1]
    /\ UNCHANGED <<exFetchVars, timeCall, legacyVars, linkVars>>

\* line 160: the timer set by setTimeout(done, value) expires and runs done
TimerFires ==
    /\ waiting.timer = "armed"
    /\ waiting.elapsed = waiting.value
    /\ waiting' = setDelayDone(waiting)
    /\ UNCHANGED <<exFetchVars, timeCall, legacyVars, linkVars>>

\* the signal given to setDelay is aborted: its abort listeners run
SignalAborts ==
    /\ waiting.signal = "live"
    /\ \E aborted \in {[waiting EXCEPT !.signal = "aborted"]} :
          waiting' = IF waiting.listener THEN setDelayAbort(aborted) ELSE aborted
    /\ UNCHANGED <<exFetchVars, timeCall, legacyVars, linkVars>>

\* the caller is done with the settled promise
WaitForget ==
    /\ waiting.promise \in {"resolved", "rejected"}
    /\ waiting' = NoWaiting
    /\ UNCHANGED <<exFetchVars, timeCall, legacyVars, linkVars>>

InitWait == InitInstance({BaseOptions}) /\ InitIdle /\ LibraryIdle

NextWait ==
    \/ \E value \in WaitValues, signalState \in {"none", "live", "aborted"} :
          SetDelayCall(value, signalState)
    \/ TimerTick
    \/ TimerFires
    \/ SignalAborts
    \/ WaitForget

SpecWait == InitWait /\ [][NextWait]_vars

SpecWaitFair == SpecWait /\ WF_vars(TimerTick) /\ WF_vars(TimerFires)

\* C40: a setDelay promise settles exactly once, in whatever order the timer
\* expires and the signal is aborted.  resolve and reject are called at most
\* once between them, a settled promise stays as it settled, and a pending
\* promise settles in the end.  When the timer fires first the promise is
\* resolved and the abort listener removed, so that an abort that comes later
\* changes only the signal; when the abort comes first the promise is
\* rejected with the reason of the signal and the timer cleared, so that it
\* never fires.
WaitSettled == waiting.promise \in {"resolved", "rejected"}

C40_SettlesOnce ==
    /\ [](waiting.resolveCalls + waiting.rejectCalls <= 1)
    /\ [](WaitSettled <=> waiting.resolveCalls + waiting.rejectCalls = 1)
    /\ [](waiting.promise = "pending" <=> waiting.timer = "armed")
    /\ [](waiting.timer = "fired"
            => /\ waiting.promise = "resolved"
               /\ ~ waiting.listener
               /\ waiting.elapsed = waiting.value)
    /\ [](waiting.timer = "cleared"
            => /\ waiting.promise = "rejected"
               /\ waiting.reason = <<SignalReason>>
               /\ ~ waiting.listener)
    /\ [][WaitSettled /\ waiting'.promise # "none"
          => /\ waiting'.promise = waiting.promise
             /\ waiting'.timer = waiting.timer
             /\ waiting'.reason = waiting.reason]_vars
    /\ (waiting.promise = "pending" ~> WaitSettled)

\* the timer fired first and the signal was aborted afterwards: the promise
\* stays resolved
C40_Witness ==
    /\ waiting.promise = "resolved"
    /\ waiting.timer = "fired"
    /\ waiting.signal = "aborted"
    /\ waiting.resolveCalls = 1
    /\ waiting.rejectCalls = 0

====
